---------------------------- MODULE Spec2Model ----------------------------
(***************************************************************************)
(* Model of the opencode-graphiti plugin: the SessionManager (session      *)
(* store, parent cache, pending-assistant buffer, flush controller), the   *)
(* event hook and the chat.message hook with its drift check and memory    *)
(* retrieval.  JavaScript strings are TLA+ strings; a value that may be    *)
(* null/undefined is a sequence of length 0 (absent) or 1 (present); a JS  *)
(* Map is a function whose DOMAIN is its key set.  A hook invocation is a  *)
(* task that advances from one await to the next: the code between two     *)
(* awaits runs as one step, and steps of different invocations interleave. *)
(***************************************************************************)
EXTENDS Integers, Sequences, FiniteSets, TLC

(***************************************************************************)
(* Bounds of the model (not program constants).                            *)
(***************************************************************************)
MaxEvents == 3
\* The longest list of facts, entities or identifiers a function is applied
\* to, and the largest budget that is split
MaxFacts == 3
MaxBudget == 400
\* The configured factStaleDays and driftThreshold (DriftNum / DriftDen);
\* the time of the run, in milliseconds.
FactStaleDays == 2
DriftNum == 1
DriftDen == 2
Now == 864000000

(***************************************************************************)
(* Program constants.                                                      *)
(***************************************************************************)
DefaultContextLimit == 200000
MinTokensForCompaction == 50000
CompactionCooldownMs == 30000
CompactionThresholdNum == 8
CompactionThresholdDen == 10
IdleMinBytes == 50
CompactionMinBytes == 0
SnapshotCap == 1200
DriftMaxFacts == 20
DefaultFactStaleDays == 30
DAY_MS == 24 * 60 * 60 * 1000

(***************************************************************************)
(* String helpers: the JavaScript string methods the code uses.            *)
(***************************************************************************)
Min(a, b) == IF a < b THEN a ELSE b
Max(a, b) == IF a > b THEN a ELSE b

CharAt(s, i) == SubSeq(s, i, i)

IsSpace(c) == c \in {" ", "\n", "\t", "\r"}

\* String.prototype.slice(start, end) with JavaScript's clamping of
\* negative and out-of-range indices (0-based, end exclusive).
Slice(s, start, end) ==
  LET n == Len(s)
      a == IF start < 0 THEN Max(n + start, 0) ELSE Min(start, n)
      b == IF end < 0 THEN Max(n + end, 0) ELSE Min(end, n)
  IN IF a >= b THEN "" ELSE SubSeq(s, a + 1, b)

SliceFrom(s, start) == Slice(s, start, Len(s))

\* String.prototype.trim()
RECURSIVE TrimStart(_)
TrimStart(s) ==
  IF Len(s) > 0 /\ IsSpace(CharAt(s, 1)) THEN TrimStart(Tail(s)) ELSE s

RECURSIVE TrimEnd(_)
TrimEnd(s) ==
  IF Len(s) > 0 /\ IsSpace(CharAt(s, Len(s)))
  THEN TrimEnd(SubSeq(s, 1, Len(s) - 1)) ELSE s

Trim(s) == TrimEnd(TrimStart(s))

\* String.prototype.indexOf(needle): 0-based index of the first
\* occurrence, -1 when there is none.
IndexOf(s, needle) ==
  LET hits == {i \in 1..(Len(s) - Len(needle) + 1) :
                 SubSeq(s, i, i + Len(needle) - 1) = needle}
  IN IF hits = {} THEN -1
     ELSE (CHOOSE i \in hits : \A j \in hits : i <= j) - 1

Includes(s, needle) == IndexOf(s, needle) # -1

StartsWith(s, prefix) ==
  Len(s) >= Len(prefix) /\ SubSeq(s, 1, Len(prefix)) = prefix

LowerChar(c) ==
  CASE c = "A" -> "a" [] c = "B" -> "b" [] c = "C" -> "c" [] c = "D" -> "d"
    [] c = "E" -> "e" [] c = "F" -> "f" [] c = "G" -> "g" [] c = "H" -> "h"
    [] c = "I" -> "i" [] c = "J" -> "j" [] c = "K" -> "k" [] c = "L" -> "l"
    [] c = "M" -> "m" [] c = "N" -> "n" [] c = "O" -> "o" [] c = "P" -> "p"
    [] c = "Q" -> "q" [] c = "R" -> "r" [] c = "S" -> "s" [] c = "T" -> "t"
    [] c = "U" -> "u" [] c = "V" -> "v" [] c = "W" -> "w" [] c = "X" -> "x"
    [] c = "Y" -> "y" [] c = "Z" -> "z" [] OTHER -> c

RECURSIVE ToLowerCase(_)
ToLowerCase(s) ==
  IF Len(s) = 0 THEN "" ELSE LowerChar(CharAt(s, 1)) \o ToLowerCase(Tail(s))

\* String.prototype.replace(/\n/g, " ")
RECURSIVE ReplaceNewlines(_)
ReplaceNewlines(s) ==
  IF Len(s) = 0 THEN ""
  ELSE (IF CharAt(s, 1) = "\n" THEN " " ELSE CharAt(s, 1))
         \o ReplaceNewlines(Tail(s))

\* Array.prototype.join(sep) on an array of strings
RECURSIVE Join(_, _)
Join(strs, sep) ==
  IF Len(strs) = 0 THEN ""
  ELSE IF Len(strs) = 1 THEN strs[1]
  ELSE strs[1] \o sep \o Join(Tail(strs), sep)

Range(seq) == {seq[i] : i \in 1..Len(seq)}

\* Map.set / Map.delete on a function whose domain is the key set
MapSet(m, k, v) == [x \in (DOMAIN m) \cup {k} |-> IF x = k THEN v ELSE m[x]]
MapDelete(m, k) == [x \in (DOMAIN m) \ {k} |-> m[x]]
EmptyMap == [x \in {} |-> ""]

(***************************************************************************)
(* The host and the configuration: what the plugin is run against.         *)
(***************************************************************************)
None == <<>>
Some(x) == <<x>>
IsSome(o) == Len(o) = 1
Get(o) == o[1]

Sessions == {"s1", "s2"}

\* The host's record of each session: s1 is a primary session, s2 is a
\* subagent session spawned by s1.
HostParent(s) == IF s = "s2" THEN Some("s1") ELSE None

\* The host's messages of each session, and their roles.
SessionMsgs(s) == IF s = "s1" THEN {"a1", "a2", "u1"} ELSE {"b1"}
MsgRole(m) == IF m = "u1" THEN "user" ELSE "assistant"

DefaultGroupId == "proj"
DefaultUserGroupId == "user"

\* `${sessionId}:${messageId}`
Key(s, m) == s \o ":" \o m
Keys == UNION {{Key(s, m) : m \in SessionMsgs(s)} : s \in Sessions}

(***************************************************************************)
(* State.                                                                  *)
(***************************************************************************)
VARIABLES
  sessions,                     \* SessionManager.sessions: id -> heap ref
  heap,                         \* the SessionState objects, by reference
  parentIdCache,                \* SessionManager.parentIdCache
  pendingAssistantMessages,     \* SessionManager.pendingAssistantMessages
  bufferedAssistantMessageIds,  \* SessionManager.bufferedAssistantMessageIds
  contextLimitCache,            \* context-limit.ts contextLimitCache
  compactionState,              \* the preemptive compaction handler's state:
                                \* lastCompactionTime, compactionInProgress,
                                \* contextLimitCache
  task,                         \* hook invocations in progress
  episodes,                     \* episodes the graph service accepted:
                                \* how many, and the last one
  nEvents,                      \* host events delivered so far
  hist                          \* history, per identifier: "Assistant:"
                                \* entries pushed, finalize attempts
                                \* made, text of the last streamed part

vars == <<sessions, heap, parentIdCache, pendingAssistantMessages,
          bufferedAssistantMessageIds, contextLimitCache, compactionState,
          task, episodes, nEvents, hist>>

\* Hook invocations in progress at the same time: two slots, so that any
\* two invocations may overlap.
Tasks == {1, 2}

\* History of identifier k: the "Assistant:" entries pushed for it, whether
\* a message.updated of the completed reply has been handled, and the text
\* of the last bufferAssistantPart call (None when there was none).
adds == hist.adds
attempted == hist.attempted
lastPart == hist.lastPart

\* The default SessionState (session.ts resolveSessionState, and the event
\* hook's session.created).
NewState ==
  [groupId |-> DefaultGroupId,
   userGroupId |-> DefaultUserGroupId,
   injectedMemories |-> FALSE,
   lastInjectionFactUuids |-> <<>>,
   cachedMemoryContext |-> None,
   cachedFactUuids |-> None,
   visibleFactUuids |-> None,
   messageCount |-> 0,
   pendingMessages |-> <<>>,
   contextLimit |-> DefaultContextLimit,
   isMain |-> TRUE]

\* SessionManager.getState
getState(s) == IF s \in DOMAIN sessions THEN Some(heap[sessions[s]]) ELSE None

(***************************************************************************)
(* utils.ts                                                                *)
(***************************************************************************)
\* A message part as the host delivers it.
TextPart(txt) == [type |-> "text", text |-> txt, synthetic |-> FALSE]
SyntheticPart(txt) == [type |-> "text", text |-> txt, synthetic |-> TRUE]
FilePart == [type |-> "file", text |-> "", synthetic |-> FALSE]

isTextPart(part) == part.type = "text" /\ ~part.synthetic

RECURSIVE PartTexts(_)
PartTexts(parts) ==
  IF Len(parts) = 0 THEN <<>>
  ELSE (IF isTextPart(parts[1]) THEN <<parts[1].text>> ELSE <<>>)
         \o PartTexts(Tail(parts))

\* parts.filter(isTextPart).map((part) => part.text).join(" ").trim()
extractTextFromParts(parts) == Trim(Join(PartTexts(parts), " "))

(***************************************************************************)
(* Hook invocations.  A task is one invocation of a hook; pc names the     *)
(* await it is suspended at.  The fields after `next` are the locals of    *)
(* the handlers; the fields from `out` on are history.                     *)
(***************************************************************************)
NoTask ==
  [kind |-> "none", sid |-> "", pc |-> "free", next |-> "",
   resolved |-> FALSE, parent |-> None, st |-> 0,
   mid |-> "", role |-> "", completed |-> FALSE, model |-> None, limit |-> 0,
   totalTokens |-> 0,
   minBytes |-> 0, desc |-> "", fst |-> 0, toFlush |-> <<>>,
   combined |-> "", body |-> "", summary |-> "",
   text |-> "", first |-> FALSE, current |-> None, budget |-> 0,
   useUser |-> FALSE, projectString |-> "", userString |-> "",
   allFactUuids |-> <<>>, sim |-> <<1, 1>>,
   out |-> "", fout |-> "", fetches |-> 0, lastUser |-> FALSE,
   arrived |-> <<>>, overlap |-> FALSE, fetched |-> None,
   looked |-> "", searches |-> <<>>, visibleSet |-> {}, answers |-> <<>>,
   given |-> <<>>, context |-> <<>>, added |-> <<>>]

\* A slot is free when no invocation has used it or the one that used it
\* has returned; the record of a returned invocation stays readable until
\* the slot is taken again.
Free(t) == task[t].pc \in {"free", "done"}

\* A hook invocation takes the lowest free slot.
FirstFree(t) == Free(t) /\ \A u \in Tasks : u < t => ~Free(u)

\* History: a message pushed to session s is recorded by every flush of s
\* whose episode write is in flight.
NotePush(tasks, s, msg) ==
  [u \in Tasks |->
     IF tasks[u].pc = "write" /\ tasks[u].sid = s
     THEN [tasks[u] EXCEPT !.arrived = Append(@, msg)]
     ELSE tasks[u]]

\* The graph service accepted episode e (client.addEpisode resolved).
AddEpisode(e) == [count |-> episodes.count + 1, last |-> Some(e)]

\* The hook invocation returns.  Its record keeps what it was called for
\* and the history of what it did; its other locals are gone.
Return(tk) ==
  [NoTask EXCEPT !.kind = tk.kind, !.sid = tk.sid, !.mid = tk.mid,
                 !.pc = "done", !.resolved = tk.resolved,
                 !.parent = tk.parent, !.st = tk.st,
                 !.minBytes = tk.minBytes, !.toFlush = tk.toFlush,
                 !.first = tk.first, !.current = tk.current,
                 !.budget = tk.budget,
                 !.useUser = tk.useUser, !.sim = tk.sim,
                 !.out = tk.out, !.fout = tk.fout, !.fetches = tk.fetches,
                 !.lastUser = tk.lastUser, !.arrived = tk.arrived,
                 !.overlap = tk.overlap, !.fetched = tk.fetched,
                 !.looked = tk.looked, !.searches = tk.searches,
                 !.visibleSet = tk.visibleSet, !.answers = tk.answers,
                 !.given = tk.given, !.context = tk.context,
                 !.added = tk.added]

Done(tk, out) == Return([tk EXCEPT !.out = out])

\* History: flush tk of session s took the buffer or put messages back
\* into it; every other flush of s whose write is in flight has overlapped
\* with it.
NoteOverlap(tasks, s) ==
  [u \in Tasks |->
     IF tasks[u].pc = "write" /\ tasks[u].sid = s
     THEN [tasks[u] EXCEPT !.overlap = TRUE]
     ELSE tasks[u]]

NoteTake(tasks, tk) ==
  IF tk.pc = "write" THEN NoteOverlap(tasks, tk.sid) ELSE tasks

(***************************************************************************)
(* SessionManager (session.ts)                                             *)
(***************************************************************************)
\* A resolution that asks the host whatever the cache holds
resolveParentIdUncached(tk, next) == [tk EXCEPT !.pc = "lookup", !.next = next]

\* resolveParentId up to its await: a cached entry answers at once,
\* otherwise sdkClient.session.get is called and the task waits for it.
resolveParentIdCall(tk, next) ==
  IF tk.sid \in DOMAIN parentIdCache
  THEN [tk EXCEPT !.resolved = TRUE, !.parent = parentIdCache[tk.sid],
                  !.pc = next, !.looked = "cached"]
  ELSE [tk EXCEPT !.pc = "lookup", !.next = next]

\* resolveParentId after sdkClient.session.get returned: "ok" is a response
\* with session info, "noinfo" a response without, "error" a rejection.
LookupReturnCachingFailure(t, outcome) ==
  /\ task[t].pc = "lookup"
  /\ LET parentId == IF outcome = "ok" THEN HostParent(task[t].sid) ELSE None
     IN /\ parentIdCache' = MapSet(parentIdCache, task[t].sid, parentId)
        /\ task' = [task EXCEPT ![t].resolved = TRUE,
                                ![t].parent = parentId,
                                ![t].looked = outcome,
                                ![t].pc = task[t].next]
  /\ UNCHANGED <<sessions, heap, pendingAssistantMessages,
                 bufferedAssistantMessageIds, contextLimitCache, compactionState, episodes,
                 nEvents, hist>>

LookupReturnRethrows(t, outcome) ==
  /\ task[t].pc = "lookup"
  /\ IF outcome = "ok"
     THEN /\ parentIdCache' =
               MapSet(parentIdCache, task[t].sid, HostParent(task[t].sid))
          /\ task' = [task EXCEPT ![t].resolved = TRUE,
                                  ![t].parent = HostParent(task[t].sid),
                                  ![t].looked = outcome,
                                  ![t].pc = task[t].next]
     ELSE /\ parentIdCache' = parentIdCache
          /\ task' = [task EXCEPT ![t] =
                       Done([task[t] EXCEPT !.looked = outcome],
                            IF task[t].kind = "chat" THEN "threw"
                            ELSE "caught")]
  /\ UNCHANGED <<sessions, heap, pendingAssistantMessages,
                 bufferedAssistantMessageIds, contextLimitCache, compactionState, episodes,
                 nEvents, hist>>

LookupReturn(t, outcome) ==
  /\ task[t].pc = "lookup"
  /\ IF outcome = "ok"
     THEN /\ parentIdCache' =
               MapSet(parentIdCache, task[t].sid, HostParent(task[t].sid))
          /\ task' = [task EXCEPT ![t].resolved = TRUE,
                                  ![t].parent = HostParent(task[t].sid),
                                  ![t].looked = outcome,
                                  ![t].pc = task[t].next]
     ELSE /\ parentIdCache' = parentIdCache
          /\ task' = [task EXCEPT ![t].resolved = FALSE,
                                  ![t].looked = outcome,
                                  ![t].pc = task[t].next]
  /\ UNCHANGED <<sessions, heap, pendingAssistantMessages,
                 bufferedAssistantMessageIds, contextLimitCache, compactionState, episodes,
                 nEvents, hist>>

\* resolveSessionState after resolveParentId answered: the new session map
\* and heap, the state reference handed back (0 for null) and `resolved`.
resolveSessionStateIgnoringParent(tk) ==
  IF ~tk.resolved
  THEN [sessions |-> sessions, heap |-> heap, st |-> 0, resolved |-> FALSE]
  ELSE IF tk.sid \in DOMAIN sessions
  THEN [sessions |-> sessions, heap |-> heap, st |-> sessions[tk.sid],
        resolved |-> TRUE]
  ELSE [sessions |-> MapSet(sessions, tk.sid, Len(heap) + 1),
        heap |-> Append(heap, NewState), st |-> Len(heap) + 1,
        resolved |-> TRUE]

resolveSessionState(tk) ==
  IF ~tk.resolved
  THEN [sessions |-> sessions, heap |-> heap, st |-> 0, resolved |-> FALSE]
  ELSE IF IsSome(tk.parent)
  THEN [sessions |-> MapDelete(sessions, tk.sid), heap |-> heap, st |-> 0,
        resolved |-> TRUE]
  ELSE IF tk.sid \in DOMAIN sessions
  THEN [sessions |-> sessions, heap |-> heap, st |-> sessions[tk.sid],
        resolved |-> TRUE]
  ELSE [sessions |-> MapSet(sessions, tk.sid, Len(heap) + 1),
        heap |-> Append(heap, NewState), st |-> Len(heap) + 1,
        resolved |-> TRUE]

\* bufferAssistantPart
bufferAssistantPart(pend, s, m, txt) == MapSet(pend, Key(s, m), txt)

\* isAssistantBuffered
isAssistantBuffered(s, m) == Key(s, m) \in bufferedAssistantMessageIds

\* deletePendingAssistant
deletePendingAssistant(pend, s, m) == MapDelete(pend, Key(s, m))

\* The role a buffered entry carries: the text before its first ":",
\* trimmed and lower-cased (flushPendingMessages, lines 305-308).
EntryRole(message) ==
  LET separatorIndex == IndexOf(message, ":")
  IN IF separatorIndex = -1 THEN ToLowerCase(Trim(message))
     ELSE ToLowerCase(Trim(Slice(message, 0, separatorIndex)))

\* finalizeAssistantMessage(state, sessionId, messageId): the new heap,
\* pending-assistant map and finalized set, and the entry pushed (if any).
alreadyFinalized(ids, key) == key \in ids

finalMessageTextUntrimmed(pend, key) ==
  IF key \in DOMAIN pend THEN pend[key] ELSE ""

finalMessageText(pend, key) ==
  IF key \in DOMAIN pend THEN Trim(pend[key]) ELSE ""

finalizeUnmarkedWhenEmpty(hp, pend, ids, st, s, m) ==
  LET key == Key(s, m)
      messageText == finalMessageText(pend, key)
      entry == "Assistant: " \o messageText
  IN IF alreadyFinalized(ids, key)
     THEN [heap |-> hp, pend |-> pend, ids |-> ids, pushed |-> None]
     ELSE IF messageText = ""
     THEN [heap |-> hp, pend |-> MapDelete(pend, key), ids |-> ids,
           pushed |-> None]
     ELSE [heap |-> [hp EXCEPT ![st].pendingMessages = Append(@, entry)],
           pend |-> MapDelete(pend, key),
           ids |-> ids \cup {key},
           pushed |-> Some(entry)]

finalizeAssistantMessage(hp, pend, ids, st, s, m) ==
  LET key == Key(s, m)
      messageText == finalMessageText(pend, key)
      entry == "Assistant: " \o messageText
  IN IF alreadyFinalized(ids, key)
     THEN [heap |-> hp, pend |-> pend, ids |-> ids, pushed |-> None]
     ELSE [heap |-> IF messageText = "" THEN hp
                    ELSE [hp EXCEPT ![st].pendingMessages = Append(@, entry)],
           pend |-> MapDelete(pend, key),
           ids |-> ids \cup {key},
           pushed |-> IF messageText = "" THEN None ELSE Some(entry)]

\* fetchLatestAssistantMessage: `response` is None when the host call
\* rejects, else Some(list of [role, id, parts]); the result is None for
\* null, else Some([id, text]).
RECURSIVE LastAssistant(_)
LastAssistant(messages) ==
  IF Len(messages) = 0 THEN None
  ELSE IF messages[Len(messages)].role = "assistant"
  THEN Some(messages[Len(messages)])
  ELSE LastAssistant(SubSeq(messages, 1, Len(messages) - 1))

fetchLatestAssistantMessage(response) ==
  IF ~IsSome(response) THEN None
  ELSE LET lastAssistant == LastAssistant(Get(response))
       IN IF ~IsSome(lastAssistant) THEN None
          ELSE LET txt == extractTextFromParts(Get(lastAssistant).parts)
               IN IF txt = "" THEN None
                  ELSE Some([id |-> Get(lastAssistant).id, text |-> txt])

\* What the event hook does once flushPendingMessages has returned.
AfterFlushAlwaysPersists(tk) ==
  IF tk.kind = "compacted"
  THEN [tk EXCEPT !.pc = "summary"]
  ELSE Done(tk, "flushed")

AfterFlush(tk) ==
  IF tk.kind = "compacted" /\ tk.summary # ""
  THEN [tk EXCEPT !.pc = "summary"]
  ELSE Done(tk, "flushed")

\* flushPendingMessages, lines 336-340: the size gate and the take.
belowOrAtThreshold(combined, minBytes) == Len(combined) <= minBytes

\* The gate of session.idle applied to every flush
belowIdleThreshold(combined, minBytes) == Len(combined) < IdleMinBytes

belowThreshold(combined, minBytes) == Len(combined) < minBytes

\* A buffer that is left as it is until the write has returned
bufferUntouched(pending) == pending

\* state.pendingMessages = [], before the write is issued
bufferAfterTake(pending) == <<>>

FlushJoin(tk, hp) ==
  LET pending == hp[tk.fst].pendingMessages
      combined == Join(pending, "\n\n")
  IN IF belowThreshold(combined, tk.minBytes)
     THEN [task |-> AfterFlush([tk EXCEPT !.fout = "below"]), heap |-> hp]
     ELSE [task |-> [tk EXCEPT !.toFlush = pending, !.combined = combined,
                               !.arrived = <<>>, !.pc = "write"],
           heap |-> [hp EXCEPT ![tk.fst].pendingMessages =
                                 bufferAfterTake(pending)]]

\* flushPendingMessages, lines 300-310: up to the fallback fetch.
needsFallbackCaseSensitive(lastMessage) ==
  LET separatorIndex == IndexOf(lastMessage, ":")
  IN Trim(Slice(lastMessage, 0, Max(separatorIndex, 0))) = "user"

needsFallback(lastMessage) == EntryRole(lastMessage) = "user"

FlushBegin(tk0, sess, hp, minBytes, desc) ==
  LET tk == [tk0 EXCEPT !.minBytes = minBytes, !.desc = desc]
  IN IF tk.sid \notin DOMAIN sess
     THEN [task |-> AfterFlush([tk EXCEPT !.fout = "nostate"]), heap |-> hp]
     ELSE LET pending == hp[sess[tk.sid]].pendingMessages
              tf == [tk EXCEPT !.fst = sess[tk.sid]]
          IN IF Len(pending) = 0
             THEN [task |-> AfterFlush([tf EXCEPT !.fout = "empty"]),
                   heap |-> hp]
             ELSE IF needsFallback(pending[Len(pending)])
             THEN [task |-> [tf EXCEPT !.pc = "fetch", !.lastUser = TRUE,
                                       !.fetches = @ + 1],
                   heap |-> hp]
             ELSE FlushJoin(tf, hp)

\* flushPendingMessages, lines 311-334: the fallback reply came back.
alreadyBuffered(ids, pending, s, fallback) ==
  IF IsSome(fallback.id)
  THEN Key(s, Get(fallback.id)) \in ids
  ELSE \E i \in 1..Len(pending) :
         StartsWith(pending[i], "Assistant:")
           /\ Includes(pending[i], fallback.text)

FetchReturn(t, response) ==
  /\ task[t].pc = "fetch"
  /\ LET tk == task[t]
         fallback == fetchLatestAssistantMessage(response)
         push == /\ IsSome(fallback)
                 /\ ~alreadyBuffered(bufferedAssistantMessageIds,
                                     heap[tk.fst].pendingMessages, tk.sid,
                                     Get(fallback))
         entry == "Assistant: " \o Get(fallback).text
         hasKey == push /\ IsSome(Get(fallback).id)
         key == Key(tk.sid, Get(Get(fallback).id))
         hp == IF push
               THEN [heap EXCEPT ![tk.fst].pendingMessages = Append(@, entry)]
               ELSE heap
         r == FlushJoin([tk EXCEPT !.fetched = fallback], hp)
         noted == IF push /\ tk.sid \in DOMAIN sessions
                          /\ sessions[tk.sid] = tk.fst
                  THEN NotePush(task, tk.sid, entry) ELSE task
     IN /\ heap' = r.heap
        /\ task' = [NoteTake(noted, r.task) EXCEPT ![t] = r.task]
        /\ bufferedAssistantMessageIds' =
             IF hasKey THEN bufferedAssistantMessageIds \cup {key}
             ELSE bufferedAssistantMessageIds
        /\ hist' = IF hasKey THEN [hist EXCEPT !.adds[key] = @ + 1] ELSE hist
  /\ UNCHANGED <<sessions, parentIdCache, pendingAssistantMessages,
                 contextLimitCache, compactionState, episodes, nEvents>>

\* flushPendingMessages, lines 352-376: addEpisode resolved or rejected.
restoredMessagesAppended(messagesToFlush, pending) ==
  pending \o messagesToFlush

restoredMessages(messagesToFlush, pending) == messagesToFlush \o pending

FlushEpisode(tk, hp) ==
  [name |-> "Buffered messages: "
              \o ReplaceNewlines(Slice(tk.combined, 0, 80)),
   episodeBody |-> tk.combined,
   groupId |-> hp[tk.fst].groupId,
   source |-> "text",
   sourceDescription |-> tk.desc]

addEpisodeSettled(t, ok) ==
  /\ task[t].pc = "write"
  /\ LET tk == task[t]
     IN IF ok
        THEN /\ episodes' = AddEpisode(FlushEpisode(tk, heap))
             /\ heap' = heap
             /\ task' = [task EXCEPT ![t] =
                          AfterFlush([tk EXCEPT !.fout = "written"])]
        ELSE /\ episodes' = episodes
             /\ heap' = IF tk.sid \in DOMAIN sessions
                        THEN [heap EXCEPT ![sessions[tk.sid]].pendingMessages =
                                restoredMessages(tk.toFlush, @)]
                        ELSE heap
             /\ task' = [NoteOverlap(task, tk.sid) EXCEPT ![t] =
                          AfterFlush([tk EXCEPT !.fout = "failed"])]
  /\ UNCHANGED <<sessions, parentIdCache, pendingAssistantMessages,
                 bufferedAssistantMessageIds, contextLimitCache, compactionState, hist>>

WriteReturn(t, ok) == addEpisodeSettled(t, ok) /\ UNCHANGED nEvents

(***************************************************************************)
(* The event hook (handlers/event.ts)                                      *)
(***************************************************************************)
\* replace(/^Assistant:\s*/, "").trim() and its "User:" twin
StripRole(message, prefix) ==
  IF StartsWith(message, prefix)
  THEN Trim(SliceFrom(message, Len(prefix))) ELSE Trim(message)

\* replace(/^(User|Assistant):\s*/, "")
StripAnyRole(message) ==
  IF StartsWith(message, "User:")
  THEN TrimStart(SliceFrom(message, Len("User:")))
  ELSE IF StartsWith(message, "Assistant:")
  THEN TrimStart(SliceFrom(message, Len("Assistant:")))
  ELSE message

\* Length of the longest prefix without "\n", "\r" or "?".
RECURSIVE RunLen(_)
RunLen(txt) ==
  IF Len(txt) = 0 \/ CharAt(txt, 1) \in {"\n", "\r", "?"} THEN 0
  ELSE 1 + RunLen(Tail(txt))

\* text.match(/[^\n\r?]{3,200}\?/g) ?? []
RECURSIVE QuestionMatches(_)
QuestionMatches(txt) ==
  IF Len(txt) = 0 THEN <<>>
  ELSE LET run == RunLen(txt)
           rest == SubSeq(txt, run + 2, Len(txt))
       IN IF run >= 3 /\ run < Len(txt) /\ CharAt(txt, run + 1) = "?"
          THEN <<SubSeq(txt, Max(1, run - 199), run + 1)>>
                 \o QuestionMatches(rest)
          ELSE QuestionMatches(rest)

RECURSIVE AllQuestions(_)
AllQuestions(messages) ==
  IF Len(messages) = 0 THEN <<>>
  ELSE QuestionMatches(StripAnyRole(messages[1]))
         \o AllQuestions(Tail(messages))

\* Array.from(new Set(xs)): first occurrences, in order
RECURSIVE Unique(_)
Unique(xs) ==
  IF Len(xs) = 0 THEN <<>>
  ELSE LET init == Unique(SubSeq(xs, 1, Len(xs) - 1))
           last == xs[Len(xs)]
       IN IF last \in Range(init) THEN init ELSE Append(init, last)

\* [...messages].reverse().find((m) => m.startsWith(prefix))
RECURSIVE FindLast(_, _)
FindLast(messages, prefix) ==
  IF Len(messages) = 0 THEN None
  ELSE IF StartsWith(messages[Len(messages)], prefix)
  THEN Some(messages[Len(messages)])
  ELSE FindLast(SubSeq(messages, 1, Len(messages) - 1), prefix)

RECURSIVE TrimAll(_)
TrimAll(xs) ==
  IF Len(xs) = 0 THEN <<>> ELSE <<Trim(xs[1])>> \o TrimAll(Tail(xs))

RECURSIVE Bullets(_)
Bullets(xs) ==
  IF Len(xs) = 0 THEN <<>> ELSE <<"- " \o xs[1]>> \o Bullets(Tail(xs))

buildSessionSnapshot(sessionId, messages) ==
  LET recentMessages ==
        SubSeq(messages, Max(1, Len(messages) - 11), Len(messages))
      foundAssistant == FindLast(recentMessages, "Assistant:")
      foundUser == FindLast(recentMessages, "User:")
      recentAssistant ==
        IF IsSome(foundAssistant)
        THEN StripRole(Get(foundAssistant), "Assistant:") ELSE ""
      recentUser ==
        IF IsSome(foundUser) THEN StripRole(Get(foundUser), "User:") ELSE ""
      questions == TrimAll(AllQuestions(recentMessages))
      uniqueQuestions == SubSeq(Unique(questions), 1,
                                Min(6, Len(Unique(questions))))
      lines ==
        <<"Session " \o sessionId \o " working snapshot">>
          \o (IF recentUser # ""
              THEN <<"Recent user focus: " \o recentUser>> ELSE <<>>)
          \o (IF recentAssistant # ""
              THEN <<"Recent assistant focus: " \o recentAssistant>>
              ELSE <<>>)
          \o (IF Len(uniqueQuestions) > 0
              THEN <<"Open questions:">> \o Bullets(uniqueQuestions)
              ELSE <<>>)
  IN Join(lines, "\n")

\* session.created: setParentId, and setState with a new state object for
\* a session without a parent, whether or not the session has a state.
onSessionCreated(s) ==
  /\ parentIdCache' = MapSet(parentIdCache, s, HostParent(s))
  /\ IF ~IsSome(HostParent(s))
     THEN /\ heap' = Append(heap, NewState)
          /\ sessions' = MapSet(sessions, s, Len(heap) + 1)
     ELSE UNCHANGED <<heap, sessions>>
  /\ UNCHANGED <<pendingAssistantMessages, bufferedAssistantMessageIds,
                 contextLimitCache, compactionState, task, episodes, hist>>

\* session.created: no await, one step.
SessionCreated(s) == onSessionCreated(s) /\ UNCHANGED nEvents

\* session.created for a session the plugin knows already
SessionCreatedAgain(s) ==
  /\ s \in DOMAIN parentIdCache
  /\ nEvents < MaxEvents
  /\ nEvents' = nEvents + 1
  /\ onSessionCreated(s)

\* message.part.updated: no await, one step.
MessagePartUpdated(s, m, part) ==
  /\ nEvents < MaxEvents
  /\ nEvents' = nEvents + 1
  /\ pendingAssistantMessages' =
       IF isTextPart(part)
       THEN bufferAssistantPart(pendingAssistantMessages, s, m, part.text)
       ELSE pendingAssistantMessages
  /\ hist' = IF isTextPart(part)
             THEN [hist EXCEPT !.lastPart[Key(s, m)] = Some(part.text)]
             ELSE hist
  /\ UNCHANGED <<sessions, heap, parentIdCache, bufferedAssistantMessageIds,
                 contextLimitCache, compactionState, task, episodes>>

\* session.idle, session.compacted and message.updated start by awaiting
\* resolveSessionState.
StartIdle(t, s) ==
  /\ FirstFree(t)
  /\ nEvents < MaxEvents
  /\ nEvents' = nEvents + 1
  /\ task' = [task EXCEPT ![t] =
       resolveParentIdCall([NoTask EXCEPT !.kind = "idle", !.sid = s],
                           "resolved")]
  /\ UNCHANGED <<sessions, heap, parentIdCache, pendingAssistantMessages,
                 bufferedAssistantMessageIds, contextLimitCache, compactionState, episodes,
                 hist>>

StartCompacted(t, s, summary) ==
  /\ FirstFree(t)
  /\ nEvents < MaxEvents
  /\ nEvents' = nEvents + 1
  /\ task' = [task EXCEPT ![t] =
       resolveParentIdCall([NoTask EXCEPT !.kind = "compacted", !.sid = s,
                                          !.summary = summary],
                           "resolved")]
  /\ UNCHANGED <<sessions, heap, parentIdCache, pendingAssistantMessages,
                 bufferedAssistantMessageIds, contextLimitCache, compactionState, episodes,
                 hist>>

StartMessageUpdated(t, s, m, completed, model) ==
  /\ FirstFree(t)
  /\ nEvents < MaxEvents
  /\ nEvents' = nEvents + 1
  /\ task' = [task EXCEPT ![t] =
       resolveParentIdCall([NoTask EXCEPT !.kind = "updated", !.sid = s,
                                          !.mid = m, !.role = MsgRole(m),
                                          !.completed = completed,
                                          !.model = model],
                           "resolved")]
  /\ UNCHANGED <<sessions, heap, parentIdCache, pendingAssistantMessages,
                 bufferedAssistantMessageIds, contextLimitCache, compactionState, episodes,
                 hist>>

SnapshotEpisode(tk, hp) ==
  [name |-> "Snapshot: " \o tk.sid,
   episodeBody |-> tk.body,
   groupId |-> hp[tk.st].groupId,
   source |-> "text",
   sourceDescription |-> "session-snapshot"]

SummaryEpisode(tk, hp) ==
  [name |-> "Session compaction: " \o tk.sid,
   episodeBody |-> tk.summary,
   groupId |-> hp[tk.st].groupId,
   source |-> "text",
   sourceDescription |-> "OpenCode session compaction summary"]

\* session.idle after resolveSessionState: the snapshot episode is sent.
IdleResolved(t) ==
  /\ task[t].pc = "resolved" /\ task[t].kind = "idle"
  /\ LET tk == task[t]
         r == resolveSessionState(tk)
     IN /\ sessions' = r.sessions
        /\ heap' = r.heap
        /\ task' = [task EXCEPT ![t] =
             IF ~r.resolved THEN Done(tk, "unresolved")
             ELSE IF r.st = 0 THEN Done(tk, "ignored")
             ELSE IF ~r.heap[r.st].isMain THEN Done(tk, "ignored")
             ELSE [tk EXCEPT !.st = r.st, !.pc = "snapshot",
                     !.body = buildSessionSnapshot(tk.sid,
                                r.heap[r.st].pendingMessages)]]
  /\ UNCHANGED <<parentIdCache, pendingAssistantMessages,
                 bufferedAssistantMessageIds, contextLimitCache, compactionState, episodes,
                 nEvents, hist>>

\* session.idle after the snapshot write: flushPendingMessages(.., 50).
SnapshotReturn(t, ok) ==
  /\ task[t].pc = "snapshot"
  /\ LET tk == task[t]
         r == FlushBegin(tk, sessions, heap, IdleMinBytes,
                         "Buffered messages from OpenCode session")
     IN /\ episodes' = IF ok THEN AddEpisode(SnapshotEpisode(tk, heap))
                       ELSE episodes
        /\ heap' = r.heap
        /\ task' = [NoteTake(task, r.task) EXCEPT ![t] = r.task]
  /\ UNCHANGED <<sessions, parentIdCache, pendingAssistantMessages,
                 bufferedAssistantMessageIds, contextLimitCache, compactionState, hist,
                 nEvents>>

\* session.compacted after resolveSessionState: flushPendingMessages(.., 0).
CompactedResolved(t) ==
  /\ task[t].pc = "resolved" /\ task[t].kind = "compacted"
  /\ LET tk == task[t]
         r == resolveSessionState(tk)
         f == FlushBegin([tk EXCEPT !.st = r.st], r.sessions, r.heap,
                         CompactionMinBytes,
                         "Buffered messages flushed before compaction")
         go == r.resolved /\ r.st # 0 /\ r.heap[r.st].isMain
     IN /\ sessions' = r.sessions
        /\ heap' = IF go THEN f.heap ELSE r.heap
        /\ task' = [(IF go THEN NoteTake(task, f.task) ELSE task)
                      EXCEPT ![t] =
             IF ~r.resolved THEN Done(tk, "unresolved")
             ELSE IF ~go THEN Done(tk, "ignored")
             ELSE f.task]
  /\ UNCHANGED <<parentIdCache, pendingAssistantMessages,
                 bufferedAssistantMessageIds, contextLimitCache, compactionState, episodes,
                 nEvents, hist>>

\* session.compacted: handleCompaction's addEpisode resolved or rejected.
SummaryReturn(t, ok) ==
  /\ task[t].pc = "summary"
  /\ episodes' = IF ok THEN AddEpisode(SummaryEpisode(task[t], heap))
                 ELSE episodes
  /\ task' = [task EXCEPT ![t] = Done(task[t], "flushed")]
  /\ UNCHANGED <<sessions, heap, parentIdCache, pendingAssistantMessages,
                 bufferedAssistantMessageIds, contextLimitCache, compactionState, hist,
                 nEvents>>

\* message.updated after resolveSessionState.
UpdatedResolved(t) ==
  /\ task[t].pc = "resolved" /\ task[t].kind = "updated"
  /\ LET tk == task[t]
         r == resolveSessionState(tk)
         main == r.resolved /\ r.st # 0 /\ r.heap[r.st].isMain
         finalize == main /\ tk.role = "assistant" /\ tk.completed
                       /\ ~isAssistantBuffered(tk.sid, tk.mid)
         f == finalizeAssistantMessage(r.heap, pendingAssistantMessages,
                bufferedAssistantMessageIds, r.st, tk.sid, tk.mid)
         pushed == finalize /\ IsSome(f.pushed)
         tl == [tk EXCEPT !.st = r.st, !.out = "finalized"]
         noted == IF pushed THEN NotePush(task, tk.sid, Get(f.pushed))
                  ELSE task
     IN /\ sessions' = r.sessions
        /\ heap' = IF finalize THEN f.heap ELSE r.heap
        /\ pendingAssistantMessages' =
             IF finalize THEN f.pend
             ELSE IF main /\ tk.role # "assistant"
             THEN deletePendingAssistant(pendingAssistantMessages,
                                         tk.sid, tk.mid)
             ELSE pendingAssistantMessages
        /\ bufferedAssistantMessageIds' =
             IF finalize THEN f.ids ELSE bufferedAssistantMessageIds
        /\ hist' = [hist EXCEPT
             !.adds = IF pushed
                      THEN [@ EXCEPT ![Key(tk.sid, tk.mid)] = @ + 1] ELSE @,
             !.attempted = IF main /\ tk.role = "assistant" /\ tk.completed
                           THEN @ \cup {Key(tk.sid, tk.mid)} ELSE @]
        /\ task' = [noted EXCEPT ![t] =
             IF ~r.resolved THEN Done(tk, "unresolved")
             ELSE IF ~main THEN Done(tk, "ignored")
             ELSE IF tk.role # "assistant" THEN Done(tk, "notassistant")
             ELSE IF ~tk.completed THEN Done(tk, "incomplete")
             ELSE IF ~finalize THEN Done(tk, "buffered")
             ELSE IF ~IsSome(tk.model) THEN Done(tl, "finalized")
             ELSE IF Get(tk.model) \in DOMAIN contextLimitCache
             THEN [tl EXCEPT !.pc = "limitThen",
                             !.limit = contextLimitCache[Get(tk.model)]]
             ELSE [tl EXCEPT !.pc = "limitWait"]]
  /\ UNCHANGED <<parentIdCache, contextLimitCache, compactionState, episodes, nEvents>>

\* resolveContextLimit after provider.list: `found` is the positive context
\* limit the provider lists for the model, None when the call fails or
\* lists none; the default is cached in that case.
LimitReturn(t, found) ==
  /\ task[t].pc = "limitWait"
  /\ LET limit == IF IsSome(found) THEN Get(found) ELSE DefaultContextLimit
     IN /\ contextLimitCache' =
             MapSet(contextLimitCache, Get(task[t].model), limit)
        /\ task' = [task EXCEPT ![t].pc = "limitThen", ![t].limit = limit]
  /\ UNCHANGED <<sessions, heap, parentIdCache, pendingAssistantMessages,
                 bufferedAssistantMessageIds, compactionState, episodes, hist,
                 nEvents>>

\* .then((limit) => { state.contextLimit = limit; })
LimitThen(t) ==
  /\ task[t].pc = "limitThen"
  /\ heap' = [heap EXCEPT ![task[t].st].contextLimit = task[t].limit]
  /\ task' = [task EXCEPT ![t] = Done(task[t], "finalized")]
  /\ UNCHANGED <<sessions, parentIdCache, pendingAssistantMessages,
                 bufferedAssistantMessageIds, contextLimitCache, compactionState, episodes,
                 nEvents, hist>>

(***************************************************************************)
(* services/context.ts.  A timestamp field is None when absent, else       *)
(* Some([ok, ms]): ok is whether Date.parse accepts the string and ms the  *)
(* time it denotes.                                                        *)
(***************************************************************************)
Time(ms) == Some([ok |-> TRUE, ms |-> ms])
BadTime == Some([ok |-> FALSE, ms |-> 0])

parseDate(value) ==
  IF ~IsSome(value) THEN None
  ELSE IF ~Get(value).ok THEN None
  ELSE Some(Get(value).ms)

\* A validity test that looks at the end of the validity only
isExpired(fact, now) ==
  LET invalidAt == parseDate(fact.invalid_at)
  IN IsSome(invalidAt) /\ Get(invalidAt) < now

isFactInvalid(fact, now) ==
  LET invalidAt == parseDate(fact.invalid_at)
      validAt == parseDate(fact.valid_at)
  IN \/ (IsSome(invalidAt) /\ Get(invalidAt) < now)
     \/ (IsSome(validAt) /\ Get(validAt) > now)

\* String(n) for a natural number
RECURSIVE IntToStr(_)
IntToStr(n) ==
  LET digit(d) == CASE d = 0 -> "0" [] d = 1 -> "1" [] d = 2 -> "2"
                    [] d = 3 -> "3" [] d = 4 -> "4" [] d = 5 -> "5"
                    [] d = 6 -> "6" [] d = 7 -> "7" [] d = 8 -> "8"
                    [] OTHER -> "9"
  IN IF n < 10 THEN digit(n) ELSE IntToStr(n \div 10) \o digit(n % 10)

\* An annotation of the facts that are older than factStaleDays only
annotateOlderFact(fact, now, factStaleDays) ==
  LET validAt == parseDate(fact.valid_at)
      ageDays == (now - Get(validAt)) \div DAY_MS
  IN IF ~IsSome(validAt) THEN fact
     ELSE IF ageDays <= factStaleDays THEN fact
     ELSE [fact EXCEPT !.fact =
             "[stale: " \o IntToStr(ageDays) \o " days ago] " \o @]

annotateStaleFact(fact, now, factStaleDays) ==
  LET validAt == parseDate(fact.valid_at)
      ageDays == (now - Get(validAt)) \div DAY_MS
  IN IF ~IsSome(validAt) THEN fact
     ELSE IF ageDays < 0 THEN fact
     ELSE IF ageDays < factStaleDays THEN fact
     ELSE [fact EXCEPT !.fact =
             "[stale: " \o IntToStr(ageDays) \o " days ago] " \o @]

\* sortFactsByRecency: by valid_at descending, facts without a parsable
\* valid_at last (-Infinity), ties in input order.
Newer(a, b) ==
  LET ta == parseDate(a.valid_at)
      tb == parseDate(b.valid_at)
  IN IsSome(ta) /\ (~IsSome(tb) \/ Get(ta) > Get(tb))

RECURSIVE InsertByRecency(_, _)
InsertByRecency(sorted, fact) ==
  IF Len(sorted) = 0 THEN <<fact>>
  ELSE IF Newer(fact, sorted[1]) THEN <<fact>> \o sorted
  ELSE <<sorted[1]>> \o InsertByRecency(Tail(sorted), fact)

RECURSIVE sortFactsByRecency(_)
sortFactsByRecency(facts) ==
  IF Len(facts) = 0 THEN <<>>
  ELSE InsertByRecency(sortFactsByRecency(SubSeq(facts, 1, Len(facts) - 1)),
                       facts[Len(facts)])

RECURSIVE AnnotateAll(_, _, _)
AnnotateAll(facts, now, factStaleDays) ==
  IF Len(facts) = 0 THEN <<>>
  ELSE <<annotateStaleFact(facts[1], now, factStaleDays)>>
         \o AnnotateAll(Tail(facts), now, factStaleDays)

filterAndAnnotateFacts(facts, now, factStaleDays) ==
  AnnotateAll(
    sortFactsByRecency(SelectSeq(facts, LAMBDA f : ~isFactInvalid(f, now))),
    now, factStaleDays)

formatFactLine(fact) ==
  LET entities ==
        (IF IsSome(fact.source_node) /\ Get(fact.source_node).name # ""
         THEN <<Get(fact.source_node).name>> ELSE <<>>)
        \o (IF IsSome(fact.target_node) /\ Get(fact.target_node).name # ""
            THEN <<Get(fact.target_node).name>> ELSE <<>>)
      entityStr == IF Len(entities) > 0
                   THEN " [" \o Join(entities, " -> ") \o "]" ELSE ""
  IN "<fact>" \o fact.fact \o entityStr \o "</fact>"

RECURSIVE FactLines(_)
FactLines(facts) ==
  IF Len(facts) = 0 THEN <<>>
  ELSE <<formatFactLine(facts[1])>> \o FactLines(Tail(facts))

formatFactLines(facts, now, factStaleDays) ==
  FactLines(filterAndAnnotateFacts(facts, now, factStaleDays))

formatNodeLine(node) ==
  LET labels == IF Len(node.labels) > 0
                THEN " (" \o Join(node.labels, ", ") \o ")" ELSE ""
      summary == IF node.summary # "" THEN ": " \o node.summary ELSE ""
  IN "<node>" \o node.name \o labels \o summary \o "</node>"

RECURSIVE formatNodeLines(_)
formatNodeLines(nodes) ==
  IF Len(nodes) = 0 THEN <<>>
  ELSE <<formatNodeLine(nodes[1])>> \o formatNodeLines(Tail(nodes))

\* A set of seen identifiers that is never filled
seenNothing(deduped, item) == FALSE

\* seen.has(item.uuid), seen holding the identifiers of the items kept
seenHas(deduped, item) == \E i \in 1..Len(deduped) : deduped[i].uuid = item.uuid

\* deduplicateFactsByUuid / deduplicateNodesByUuid: first occurrence wins.
RECURSIVE deduplicateByUuid(_)
deduplicateByUuid(items) ==
  IF Len(items) = 0 THEN <<>>
  ELSE LET init == deduplicateByUuid(SubSeq(items, 1, Len(items) - 1))
           last == items[Len(items)]
       IN IF seenHas(init, last) THEN init ELSE Append(init, last)

removeNodesReferencedByFacts(facts, nodes) ==
  LET factNodeUuids ==
        ({Get(facts[i].source_node).uuid :
            i \in {j \in 1..Len(facts) : IsSome(facts[j].source_node)}}
         \cup {Get(facts[i].target_node).uuid :
                 i \in {j \in 1..Len(facts) : IsSome(facts[j].target_node)}})
        \ {""}
  IN SelectSeq(nodes, LAMBDA n : n.uuid \notin factNodeUuids)

deduplicateContext(facts, nodes) ==
  LET dedupedFacts == deduplicateByUuid(facts)
      dedupedNodes == deduplicateByUuid(nodes)
  IN [facts |-> dedupedFacts,
      nodes |-> removeNodesReferencedByFacts(dedupedFacts, dedupedNodes)]

formatMemoryContext(facts, nodes, now, factStaleDays) ==
  IF Len(facts) = 0 /\ Len(nodes) = 0 THEN ""
  ELSE Join(
    <<"<memory>",
      "<instruction>Background context only; do not reference in titles, summaries, or opening responses unless directly relevant.</instruction>">>
    \o (IF Len(facts) > 0
        THEN <<"<facts>">> \o formatFactLines(facts, now, factStaleDays)
               \o <<"</facts>">>
        ELSE <<>>)
    \o (IF Len(nodes) > 0
        THEN <<"<nodes>">> \o formatNodeLines(nodes) \o <<"</nodes>">>
        ELSE <<>>)
    \o <<"</memory>">>, "\n")

(***************************************************************************)
(* Budget arithmetic.  The program multiplies an integer budget by the     *)
(* double nearest to 0.7, 0.4 or 0.35 and floors the rounded product.  For *)
(* a budget up to 2^21 the result is the integer quotient, except that a   *)
(* product which is a whole number in exact arithmetic may be rounded to   *)
(* the double just below it, and is then floored to one less.              *)
(***************************************************************************)
\* The largest power of two that is at most q, for q >= 1
RECURSIVE PowerOfTwoBelow(_)
PowerOfTwoBelow(q) == IF q < 2 THEN 1 ELSE 2 * PowerOfTwoBelow(q \div 2)

\* Math.floor(x * 0.7)
FloorOf70Percent(x) ==
  LET q == (7 * x) \div 10
  IN IF (7 * x) % 10 = 0 /\ q > 0 /\ 2 * x > 5 * PowerOfTwoBelow(q)
     THEN q - 1 ELSE q

\* Math.floor(x * 0.4)
FloorOf40Percent(x) == (4 * x) \div 10

\* Math.floor(x * 0.35)
FloorOf35Percent(x) ==
  LET q == (35 * x) \div 100
  IN IF (35 * x) % 100 = 0 /\ q > 0 /\ x > 5 * PowerOfTwoBelow(q)
     THEN q - 1 ELSE q

\* A share that is a fixed part of the budget, whatever was taken already
fixedShare(budget, taken) == (3 * budget) \div 10

\* The last share of a split: budget - projectBudget,
\* budget - decisionBudget - activeBudget
lastShare(budget, taken) == budget - taken

\* The project and user budgets of a budget
splitScopes(budget) ==
  LET projectBudget == FloorOf70Percent(budget)
  IN [project |-> projectBudget, user |-> lastShare(budget, projectBudget)]

\* The decision, active and background budgets of a section's budget
splitTiers(budget) ==
  LET decisionBudget == FloorOf40Percent(budget)
      activeBudget == FloorOf35Percent(budget)
  IN [decision |-> decisionBudget, active |-> activeBudget,
      background |-> lastShare(budget, decisionBudget + activeBudget)]

\* services/context-limit.ts: Math.floor(contextLimit * 0.05 * 4)
calculateInjectionBudget(contextLimit) == (contextLimit * 5 * 4) \div 100

(***************************************************************************)
(* services/client.ts: the graph client turns a failed or malformed tool   *)
(* call into an empty result.  `response` is None for a failed call, else  *)
(* Some(list).                                                             *)
(***************************************************************************)
searchFacts(response) == IF IsSome(response) THEN Get(response) ELSE <<>>
searchNodes(response) == IF IsSome(response) THEN Get(response) ELSE <<>>
getEpisodes(response) == IF IsSome(response) THEN Get(response) ELSE <<>>

(***************************************************************************)
(* The chat.message hook (handlers/chat.ts)                                *)
(***************************************************************************)
RECURSIVE Uuids(_)
Uuids(facts) ==
  IF Len(facts) = 0 THEN <<>> ELSE <<facts[1].uuid>> \o Uuids(Tail(facts))

\* A similarity that counts the elements of the lists, not of their sets
similarityOfLists(left, right) ==
  LET intersection == Cardinality(Range(left) \cap Range(right))
      union == Len(left) + Len(right) - intersection
  IN IF union = 0 THEN <<1, 1>> ELSE <<intersection, union>>

\* computeJaccardSimilarity, as the fraction <<numerator, denominator>>.
computeJaccardSimilarity(left, right) ==
  IF Len(left) = 0 /\ Len(right) = 0 THEN <<1, 1>>
  ELSE LET leftSet == Range(left)
           rightSet == Range(right)
           intersection == Cardinality(leftSet \cap rightSet)
           union == Cardinality(leftSet) + Cardinality(rightSet)
                      - intersection
       IN IF union = 0 THEN <<1, 1>> ELSE <<intersection, union>>

\* similarity < driftThreshold
shouldReinjectAtThreshold(similarity) ==
  similarity[1] * DriftDen <= DriftNum * similarity[2]

shouldReinject(similarity) ==
  similarity[1] * DriftDen < DriftNum * similarity[2]

\* const useUserScope = shouldInjectOnFirst
useUserScopeAlways(shouldInjectOnFirst) == TRUE

useUserScope(shouldInjectOnFirst) == shouldInjectOnFirst

\* Lines 103-125: the early returns of searchAndCacheMemoryContext.
alwaysSomethingToCache(nothing, projectString, userString) == FALSE

nothingToCache(nothing, projectString, userString) ==
  nothing \/ (projectString = "" /\ userString = "")

\* (fact) => !visibleSet.has(fact.uuid)
anyFact(fact, visibleSet) == TRUE

notVisible(fact, visibleSet) == fact.uuid \notin visibleSet

FactSearch(group, max) == [kind |-> "facts", group |-> group, max |-> max]
NodeSearch(group, max) == [kind |-> "nodes", group |-> group, max |-> max]
EpisodeFetch(group) == [kind |-> "episodes", group |-> group, max |-> 10]

\* Lines 265-268 and 43-67: the budget is computed and the searches of
\* searchAndCacheMemoryContext are issued.
RetrievalIssue(tk, state) ==
  LET user == useUserScope(tk.first)
  IN [tk EXCEPT
        !.useUser = user,
        !.budget = calculateInjectionBudget(state.contextLimit),
        !.pc = "retrieval",
        !.searches = @ \o <<FactSearch(state.groupId, 50),
                            NodeSearch(state.groupId, 30)>>
                       \o (IF user /\ state.userGroupId # ""
                           THEN <<FactSearch(state.userGroupId, 20),
                                  NodeSearch(state.userGroupId, 10)>>
                           ELSE <<>>)]

\* Lines 159-170: the sections are cut to their budgets, joined and cut to
\* the total budget.
joinedUncut(joined, characterBudget) == joined

\* .slice(0, characterBudget)
cutToBudget(joined, characterBudget) == Slice(joined, 0, characterBudget)

composeMemoryContext(primer, projectString, userString, user, budget) ==
  LET projectBudget == IF user THEN splitScopes(budget).project ELSE budget
      userBudget == lastShare(budget, projectBudget)
      truncatedProject == Slice(projectString, 0, projectBudget)
      truncatedUser == IF user THEN Slice(userString, 0, userBudget) ELSE ""
      sections == SelectSeq(<<primer, truncatedProject, truncatedUser>>,
                            LAMBDA section : Len(Trim(section)) > 0)
  IN cutToBudget(Join(sections, "\n\n"), budget)

\* The identifiers of the facts in the context, whatever the seed
includedOnly(seedFactUuids, allFactUuids) == Unique(allFactUuids)

\* seedFactUuids ?? Array.from(new Set(allFactUuids))
seedOrIncluded(seedFactUuids, allFactUuids) ==
  IF IsSome(seedFactUuids) THEN Get(seedFactUuids) ELSE Unique(allFactUuids)

\* Lines 159-185 and 275: the context is composed and cached, and the hook
\* marks the session as injected.
CacheContext(tk, hp, snapshotPrimer) ==
  LET memoryContext ==
        composeMemoryContext(snapshotPrimer, tk.projectString,
                             tk.userString, tk.useUser, tk.budget)
      factUuids == seedOrIncluded(tk.current, tk.allFactUuids)
  IN IF memoryContext = ""
     THEN [task |-> Done(tk, "emptycontext"),
           heap |-> [hp EXCEPT ![tk.st].injectedMemories = TRUE]]
     ELSE [task |-> Done(tk, "cached"),
           heap |-> [hp EXCEPT ![tk.st].cachedMemoryContext =
                                  Some(memoryContext),
                               ![tk.st].cachedFactUuids = Some(factUuids),
                               ![tk.st].lastInjectionFactUuids = factUuids,
                               ![tk.st].injectedMemories = TRUE]]

\* Lines 134-153: the newest episode described as "session-snapshot".
EpisodeDescription(episode) ==
  IF IsSome(episode.sourceDescription) THEN Get(episode.sourceDescription)
  ELSE IF IsSome(episode.source_description)
  THEN Get(episode.source_description) ELSE ""

EpisodeTime(episode) ==
  IF IsSome(parseDate(episode.created_at))
  THEN Get(parseDate(episode.created_at)) ELSE 0

snapshotPrimerOf(fetched, characterBudget) ==
  LET snaps == SelectSeq(fetched,
                 LAMBDA e : EpisodeDescription(e) = "session-snapshot")
      best == CHOOSE i \in 1..Len(snaps) :
                \A j \in 1..Len(snaps) :
                  \/ EpisodeTime(snaps[i]) > EpisodeTime(snaps[j])
                  \/ (EpisodeTime(snaps[i]) = EpisodeTime(snaps[j]) /\ i <= j)
  IN IF Len(snaps) = 0 THEN ""
     ELSE IF snaps[best].content = "" THEN ""
     ELSE Join(<<"## Session Snapshot",
                 "> Most recent session snapshot; use to restore active strategy and open questions.",
                 "",
                 Slice(snaps[best].content, 0,
                       Min(characterBudget, SnapshotCap))>>, "\n")

\* chat.message begins: isSubagentSession awaits resolveParentId.  The text
\* of the parts is extracted here; the parts do not change meanwhile.
StartChat(t, s, parts) ==
  /\ FirstFree(t)
  /\ nEvents < MaxEvents
  /\ nEvents' = nEvents + 1
  /\ task' = [task EXCEPT ![t] =
       resolveParentIdCall([NoTask EXCEPT !.kind = "chat", !.sid = s,
                              !.text = extractTextFromParts(parts)],
                           "isSub")]
  /\ UNCHANGED <<sessions, heap, parentIdCache, pendingAssistantMessages,
                 bufferedAssistantMessageIds, contextLimitCache, compactionState, episodes,
                 hist>>

\* isSubagentSession answered (!!parentId); resolveSessionState is awaited.
ChatIsSub(t) ==
  /\ task[t].pc = "isSub"
  /\ task' = [task EXCEPT ![t] =
       IF task[t].resolved /\ IsSome(task[t].parent)
       THEN Done(task[t], "subagent")
       ELSE resolveParentIdCall(task[t], "resolved")]
  /\ UNCHANGED <<sessions, heap, parentIdCache, pendingAssistantMessages,
                 bufferedAssistantMessageIds, contextLimitCache, compactionState, episodes,
                 nEvents, hist>>

\* Lines 208-268: the user turn is buffered, then the drift search or the
\* first retrieval is issued.
ChatResolved(t) ==
  /\ task[t].pc = "resolved" /\ task[t].kind = "chat"
  /\ LET tk == task[t]
         r == resolveSessionState(tk)
         main == r.resolved /\ r.st # 0 /\ r.heap[r.st].isMain
         counted == [r.heap EXCEPT ![r.st].messageCount = @ + 1]
         entry == "User: " \o tk.text
         pushed == [counted EXCEPT ![r.st].pendingMessages = Append(@, entry)]
         state == pushed[r.st]
         shouldInjectOnFirst == ~state.injectedMemories
         tc == [tk EXCEPT !.st = r.st, !.first = shouldInjectOnFirst]
         buffers == main /\ tk.text # ""
         noted == IF buffers THEN NotePush(task, tk.sid, entry) ELSE task
     IN /\ sessions' = r.sessions
        /\ heap' = IF ~main THEN r.heap
                   ELSE IF tk.text = "" THEN counted ELSE pushed
        /\ task' = [noted EXCEPT ![t] =
             IF ~r.resolved THEN Done(tk, "unresolved")
             ELSE IF ~main THEN Done(tk, "ignored")
             ELSE IF tk.text = "" THEN Done(tc, "notext")
             ELSE IF ~shouldInjectOnFirst
             THEN [tc EXCEPT !.pc = "drift",
                     !.searches = Append(@, FactSearch(state.groupId,
                                                       DriftMaxFacts))]
             ELSE RetrievalIssue(tc, state)]
  /\ UNCHANGED <<parentIdCache, pendingAssistantMessages,
                 bufferedAssistantMessageIds, contextLimitCache, compactionState, episodes,
                 nEvents, hist>>

\* Lines 243-255 and 265-268: the drift search answered.
DriftReturn(t, response) ==
  /\ task[t].pc = "drift"
  /\ LET tk == task[t]
         currentFactUuids == Uuids(searchFacts(response))
         similarity == computeJaccardSimilarity(currentFactUuids,
                         heap[tk.st].lastInjectionFactUuids)
         td == [tk EXCEPT !.current = Some(currentFactUuids),
                          !.sim = similarity,
                          !.answers = Append(@, response)]
     IN task' = [task EXCEPT ![t] =
          IF ~shouldReinject(similarity) THEN Done(td, "nodrift")
          ELSE RetrievalIssue(td, heap[tk.st])]
  /\ UNCHANGED <<sessions, heap, parentIdCache, pendingAssistantMessages,
                 bufferedAssistantMessageIds, contextLimitCache, compactionState, episodes,
                 nEvents, hist>>

\* Lines 69-133: the four searches answered (the user-scope ones resolve to
\* [] when they were not issued).  The answers are kept as history.
RetrievalReturn(t, pf, pn, uf, un) ==
  /\ task[t].pc = "retrieval"
  /\ LET state == heap[task[t].st]
         issued == task[t].useUser /\ state.userGroupId # ""
         tk == [task[t] EXCEPT !.answers =
                  @ \o <<pf, pn, IF issued THEN uf ELSE Some(<<>>),
                         IF issued THEN un ELSE Some(<<>>)>>]
         projectContext ==
           deduplicateContext(searchFacts(pf), searchNodes(pn))
         userContext ==
           IF tk.useUser /\ state.userGroupId # ""
           THEN deduplicateContext(searchFacts(uf), searchNodes(un))
           ELSE deduplicateContext(<<>>, <<>>)
         visibleSet == IF IsSome(state.visibleFactUuids)
                       THEN Range(Get(state.visibleFactUuids)) ELSE {}
         projectFacts == SelectSeq(projectContext.facts,
                           LAMBDA f : notVisible(f, visibleSet))
         userFacts == SelectSeq(userContext.facts,
                        LAMBDA f : notVisible(f, visibleSet))
         nothing == /\ Len(projectFacts) = 0 /\ Len(userFacts) = 0
                    /\ Len(projectContext.nodes) = 0
                    /\ Len(userContext.nodes) = 0
         projectContextString ==
           formatMemoryContext(projectFacts, projectContext.nodes, Now,
                               FactStaleDays)
         userContextString ==
           formatMemoryContext(userFacts, userContext.nodes, Now,
                               FactStaleDays)
         tr == [tk EXCEPT !.visibleSet = visibleSet,
                          !.projectString = projectContextString,
                          !.userString = userContextString,
                          !.allFactUuids = Uuids(projectFacts)
                                             \o Uuids(userFacts)]
         c == CacheContext(tr, heap, "")
     IN IF nothingToCache(nothing, projectContextString, userContextString)
        THEN /\ heap' = [heap EXCEPT ![tk.st].injectedMemories = TRUE]
             /\ task' = [task EXCEPT ![t] =
                  Done([tk EXCEPT !.visibleSet = visibleSet], "nothing")]
        ELSE IF tk.useUser /\ tk.budget > 0
        THEN /\ heap' = heap
             /\ task' = [task EXCEPT ![t] =
                  [tr EXCEPT !.pc = "episodes",
                     !.searches = Append(@, EpisodeFetch(state.groupId))]]
        ELSE /\ heap' = c.heap
             /\ task' = [task EXCEPT ![t] = c.task]
  /\ UNCHANGED <<sessions, parentIdCache, pendingAssistantMessages,
                 bufferedAssistantMessageIds, contextLimitCache, compactionState, episodes,
                 nEvents, hist>>

\* Lines 134-185: getEpisodes answered; the context is composed and cached.
EpisodesReturn(t, response) ==
  /\ task[t].pc = "episodes"
  /\ LET tk == task[t]
         c == CacheContext(tk, heap,
                snapshotPrimerOf(getEpisodes(response), tk.budget))
     IN /\ heap' = c.heap
        /\ task' = [task EXCEPT ![t] = c.task]
  /\ UNCHANGED <<sessions, parentIdCache, pendingAssistantMessages,
                 bufferedAssistantMessageIds, contextLimitCache, compactionState, episodes,
                 nEvents, hist>>

(***************************************************************************)
(* Compaction context (services/compaction.ts, handlers/compacting.ts).    *)
(* `given` is output.context as the host passed it, `context` is           *)
(* output.context as the hook leaves it and `added` is what                *)
(* getCompactionContext returned.                                          *)
(***************************************************************************)
DECISION_KEYWORDS ==
  <<"decided", "must", "should", "prefer", "constraint", "require", "chose",
    "always", "never", "schema", "architecture", "agreed", "design",
    "selected">>

\* \w of a regular expression, on lower-case text
IsWordChar(c) ==
  c \in {"a", "b", "c", "d", "e", "f", "g", "h", "i", "j", "k", "l", "m",
         "n", "o", "p", "q", "r", "s", "t", "u", "v", "w", "x", "y", "z",
         "0", "1", "2", "3", "4", "5", "6", "7", "8", "9", "_"}

\* new RegExp(`\\b${keyword}\\b`, "i").test(text)
MatchesWord(text, keyword) ==
  \E i \in 1..(Len(text) - Len(keyword) + 1) :
    LET last == i + Len(keyword) - 1
    IN /\ SubSeq(text, i, last) = keyword
       /\ (i = 1 \/ ~IsWordChar(CharAt(text, i - 1)))
       /\ (last = Len(text) \/ ~IsWordChar(CharAt(text, last + 1)))

hasDecisionKeyword(fact) ==
  LET text == ToLowerCase(fact.fact)
  IN \E k \in 1..Len(DECISION_KEYWORDS) :
       MatchesWord(text, DECISION_KEYWORDS[k])

\* validAt is a number, whatever the cutoff
isDated(fact, now) == IsSome(parseDate(fact.valid_at))

\* validAt is a number and validAt >= cutoff
isRecent(fact, now) ==
  LET validAt == parseDate(fact.valid_at)
      cutoff == now - 7 * DAY_MS
  IN IsSome(validAt) /\ Get(validAt) >= cutoff

classifyFacts(facts, now) ==
  [decisions |-> SelectSeq(facts, LAMBDA f : hasDecisionKeyword(f)),
   active |-> SelectSeq(facts, LAMBDA f :
                ~hasDecisionKeyword(f) /\ isRecent(f, now)),
   background |-> SelectSeq(facts, LAMBDA f :
                    ~hasDecisionKeyword(f) /\ ~isRecent(f, now))]

\* The loop of takeFactsWithinBudget: line i selects prioritized[i] when it
\* fits in what remains of the budget, and is skipped otherwise.
RECURSIVE TakeLines(_, _, _, _)
TakeLines(lines, prioritized, i, remaining) ==
  IF i > Len(lines) THEN <<>>
  ELSE LET length == Len(lines[i]) + 1
       IN IF remaining - length < 0
          THEN TakeLines(lines, prioritized, i + 1, remaining)
          ELSE <<prioritized[i]>>
                 \o TakeLines(lines, prioritized, i + 1, remaining - length)

takeFactsWithinBudget(facts, budget, now, factStaleDays) ==
  IF budget <= 0 \/ Len(facts) = 0 THEN <<>>
  ELSE LET classified == classifyFacts(facts, now)
           prioritized == classified.decisions \o classified.active
                            \o classified.background
           lines == formatFactLines(prioritized, now, factStaleDays)
       IN TakeLines(lines, prioritized, 1, budget)

MemoryInstruction ==
  "<instruction>Background context only; do not reference in titles, summaries, or opening responses unless directly relevant.</instruction>"

\* A tier of a section: its tag lines around the lines of the selected facts
Tier(tag, selected, now, factStaleDays) ==
  IF Len(selected) > 0
  THEN <<"<" \o tag \o ">">> \o formatFactLines(selected, now, factStaleDays)
         \o <<"</" \o tag \o ">">>
  ELSE <<>>

buildSection(header, facts, nodes, budget, now, factStaleDays) ==
  LET classified == classifyFacts(facts, now)
      decisionBudget == splitTiers(budget).decision
      activeBudget == splitTiers(budget).active
      backgroundBudget == splitTiers(budget).background
      selectedDecisions ==
        takeFactsWithinBudget(classified.decisions, decisionBudget, now,
                              factStaleDays)
      selectedActive ==
        takeFactsWithinBudget(classified.active, activeBudget, now,
                              factStaleDays)
      selectedBackground ==
        takeFactsWithinBudget(classified.background, backgroundBudget, now,
                              factStaleDays)
  IN Join(<<header, MemoryInstruction>>
            \o Tier("decisions", selectedDecisions, now, factStaleDays)
            \o Tier("active_context", selectedActive, now, factStaleDays)
            \o Tier("background", selectedBackground, now, factStaleDays)
            \o (IF Len(nodes) > 0
                THEN <<"<nodes>">> \o formatNodeLines(nodes) \o <<"</nodes>">>
                ELSE <<>>),
          "\n")

headerLines ==
  <<"<summary>", "<decisions>", "- ", "</decisions>", "",
    "<active_context>", "- ", "</active_context>", "",
    "<background>", "- ", "</background>", "", "<persistent_memory>">>

\* contextStrings.slice(0, 3).join(" ").slice(0, 500)
queryText(contextStrings) ==
  Slice(Join(SubSeq(contextStrings, 1, Min(3, Len(contextStrings))), " "),
        0, 500)

\* !queryText.trim()
queryNeverEmpty(query) == FALSE

queryIsEmpty(query) == Trim(query) = ""

\* sections.join("\n").slice(0, characterBudget)
contentUncut(sections, characterBudget) == Join(sections, "\n")

contentWithinBudget(sections, characterBudget) ==
  Slice(Join(sections, "\n"), 0, characterBudget)

\* Lines 300-307: a section that is not blank is pushed with its closing tag.
closedSection(truncated) ==
  IF Trim(truncated) # "" THEN <<truncated, "</memory>">> ELSE <<>>

\* Lines 190-312 of getCompactionContext: what it returns for the answers
\* of its four searches.
compactionContextOf(projectFacts, projectNodes, userFacts, userNodes, budget) ==
  LET now == Now
      factStaleDays == DefaultFactStaleDays
      projectContext == deduplicateContext(projectFacts, projectNodes)
      userContext == deduplicateContext(userFacts, userNodes)
      header == Join(headerLines, "\n")
      base == header \o "\n"
      remainingBudget == Max(budget - Len(base), 0)
      projectBudget == splitScopes(remainingBudget).project
      userBudget == splitScopes(remainingBudget).user
      projectSection ==
        buildSection("<memory source=\"project\">", projectContext.facts,
                     projectContext.nodes, projectBudget, now, factStaleDays)
      userSection ==
        buildSection("<memory source=\"user\">", userContext.facts,
                     userContext.nodes, userBudget, now, factStaleDays)
      truncatedProject == Slice(projectSection, 0, projectBudget)
      truncatedUser == Slice(userSection, 0, userBudget)
      sections ==
        <<header>> \o closedSection(truncatedProject)
          \o closedSection(truncatedUser)
          \o <<"</persistent_memory>", "</summary>">>
  IN IF /\ Len(projectFacts) = 0 /\ Len(projectNodes) = 0
        /\ Len(userFacts) = 0 /\ Len(userNodes) = 0
     THEN <<>>
     ELSE <<contentWithinBudget(sections, budget)>>

\* experimental.session.compacting begins (compacting.ts 27-43,
\* compaction.ts 148-188): a session without a primary state is ignored; an
\* empty query ends the call; otherwise the searches are issued and awaited.
StartCompacting(t, s, contextStrings) ==
  /\ FirstFree(t)
  /\ nEvents < MaxEvents
  /\ nEvents' = nEvents + 1
  /\ LET state == getState(s)
         tk == [NoTask EXCEPT !.kind = "compacting", !.sid = s,
                              !.given = contextStrings,
                              !.context = contextStrings]
         groupId == IF Get(state).groupId # "" THEN Get(state).groupId
                    ELSE DefaultGroupId
         userGroupId == Get(state).userGroupId
         ts == [tk EXCEPT
                  !.st = sessions[s],
                  !.budget = calculateInjectionBudget(Get(state).contextLimit),
                  !.useUser = userGroupId # ""]
     IN task' = [task EXCEPT ![t] =
          IF ~IsSome(state) THEN Done(tk, "notmain")
          ELSE IF ~Get(state).isMain THEN Done(tk, "notmain")
          ELSE IF queryIsEmpty(queryText(contextStrings))
          THEN Done(ts, "noquery")
          ELSE [ts EXCEPT
                  !.pc = "compactSearch",
                  !.searches = <<FactSearch(groupId, 50),
                                 NodeSearch(groupId, 30)>>
                                 \o (IF userGroupId # ""
                                     THEN <<FactSearch(userGroupId, 20),
                                            NodeSearch(userGroupId, 10)>>
                                     ELSE <<>>)]]
  /\ UNCHANGED <<sessions, heap, parentIdCache, pendingAssistantMessages,
                 bufferedAssistantMessageIds, contextLimitCache, compactionState, episodes,
                 hist>>

\* compacting.ts 45-48: what was returned is pushed to output.context and
\* the hook returns.
pushContext(tk, answers, additionalContext) ==
  [Done(tk, IF Len(additionalContext) > 0 THEN "added" ELSE "nothing")
     EXCEPT !.answers = answers, !.added = additionalContext,
            !.context = @ \o additionalContext]

\* The searches answered (compaction.ts 182-312, compacting.ts 45-48): the
\* context is built and pushed to output.context.
CompactingReturn(t, pf, pn, uf, un) ==
  /\ task[t].pc = "compactSearch"
  /\ LET tk == task[t]
         ufa == IF tk.useUser THEN uf ELSE Some(<<>>)
         una == IF tk.useUser THEN un ELSE Some(<<>>)
         projectFacts == searchFacts(pf)
         projectNodes == searchNodes(pn)
         userFacts == searchFacts(ufa)
         userNodes == searchNodes(una)
         additionalContext ==
           compactionContextOf(projectFacts, projectNodes, userFacts,
                               userNodes, tk.budget)
     IN task' = [task EXCEPT ![t] =
          pushContext(tk, <<pf, pn, ufa, una>>, additionalContext)]
  /\ UNCHANGED <<sessions, heap, parentIdCache, pendingAssistantMessages,
                 bufferedAssistantMessageIds, contextLimitCache, compactionState, episodes,
                 nEvents, hist>>

(***************************************************************************)
(* The messages.transform hook (handlers/messages.ts).  It has no await:   *)
(* one call is one step.  hist.transform records the last call: its       *)
(* number, the session, how the call ended and the text of the last user  *)
(* message as the hook left it.                                            *)
(***************************************************************************)
\* s.split(",")
RECURSIVE Split(_, _)
Split(str, sep) ==
  LET i == IndexOf(str, sep)
  IN IF i = -1 THEN <<str>>
     ELSE <<Slice(str, 0, i)>> \o Split(SliceFrom(str, i + Len(sep)), sep)

\* extractVisibleUuids: the identifiers listed in the data-uuids attributes
\* of the <memory> blocks of a text.
RECURSIVE extractVisibleUuids(_)
extractVisibleUuids(text) ==
  LET open == "<memory data-uuids=\""
      i == IndexOf(text, open)
      rest == SliceFrom(text, i + Len(open))
      j == IndexOf(rest, "\"")
  IN IF i = -1 \/ j = -1 THEN <<>>
     ELSE SelectSeq(Split(Slice(rest, 0, j), ","), LAMBDA u : u # "")
            \o extractVisibleUuids(SliceFrom(rest, j + 1))

\* part.type === "text" && "text" in part
hasText(part) == part.type = "text"

\* Lines 38-53: the identifiers visible in the text parts of all messages.
RECURSIVE PartsUuids(_)
PartsUuids(parts) ==
  IF Len(parts) = 0 THEN <<>>
  ELSE (IF hasText(parts[1]) THEN extractVisibleUuids(parts[1].text)
        ELSE <<>>) \o PartsUuids(Tail(parts))

RECURSIVE allVisibleUuids(_)
allVisibleUuids(messages) ==
  IF Len(messages) = 0 THEN <<>>
  ELSE PartsUuids(messages[1].parts) \o allVisibleUuids(Tail(messages))

\* Lines 87-90: the block put in front of the user's text.
memoryBlock(uuids, cachedMemoryContext) ==
  LET uuidAttr == IF Len(uuids) > 0
                  THEN " data-uuids=\"" \o Join(uuids, ",") \o "\"" ELSE ""
  IN "<memory" \o uuidAttr \o ">\n" \o cachedMemoryContext \o "\n</memory>"

\* Lines 82-83 and 101-102: the cache is cleared.
cacheKept(hp, st) == hp

cacheCleared(hp, st) ==
  [hp EXCEPT ![st].cachedMemoryContext = None,
             ![st].cachedFactUuids = None]

MessagesTransform(messages) ==
  LET users == {i \in 1..Len(messages) : messages[i].role = "user"}
      last == CHOOSE i \in users : \A j \in users : j <= i
      lastUserEntry == messages[last]
      sessionID == lastUserEntry.sessionID
      st == sessions[sessionID]
      scanned == [heap EXCEPT ![st].visibleFactUuids =
                    Some(Unique(allVisibleUuids(messages)))]
      state == scanned[st]
      texts == SelectSeq(lastUserEntry.parts, hasText)
      uuids == IF IsSome(state.cachedFactUuids)
               THEN Get(state.cachedFactUuids) ELSE <<>>
      block == memoryBlock(uuids, Get(state.cachedMemoryContext))
      note(out, txt) ==
        [hist EXCEPT !.transform =
           Some([n |-> IF IsSome(@) THEN Get(@).n + 1 ELSE 1,
                 sid |-> IF users = {} THEN "" ELSE sessionID,
                 out |-> out, text |-> txt])]
  IN /\ nEvents < MaxEvents
     /\ nEvents' = nEvents + 1
     /\ IF users = {}
        THEN heap' = heap /\ hist' = note("nouser", "")
        ELSE IF sessionID \notin DOMAIN sessions
        THEN heap' = heap /\ hist' = note("notmain", "")
        ELSE IF ~heap[st].isMain
        THEN heap' = heap /\ hist' = note("notmain", "")
        ELSE IF ~IsSome(state.cachedMemoryContext)
                  \/ Get(state.cachedMemoryContext) = ""
        THEN heap' = scanned /\ hist' = note("nocache", "")
        ELSE IF Len(texts) = 0
        THEN heap' = scanned /\ hist' = note("notext", "")
        ELSE IF Includes(texts[1].text, "<memory")
        THEN /\ heap' = cacheCleared(scanned, st)
             /\ hist' = note("already", texts[1].text)
        ELSE /\ heap' = cacheCleared(scanned, st)
             /\ hist' = note("injected", block \o "\n\n" \o texts[1].text)
     /\ UNCHANGED <<sessions, parentIdCache, pendingAssistantMessages,
                    bufferedAssistantMessageIds, contextLimitCache, compactionState, task,
                    episodes>>

(***************************************************************************)
(* Inputs: what the host and the graph service may deliver.                *)
(***************************************************************************)
LongText == "0123456789012345678901234567890123456789abcd"

\* Parts of a user message (chat.message)
ChatParts == {<<TextPart("hi")>>, <<FilePart>>}

\* Streamed parts (message.part.updated)
StreamParts == {TextPart(" ok "), TextPart(" "), TextPart("sure, done"),
                FilePart, SyntheticPart("x")}

\* Answers of sdkClient.session.messages for session s: None is a rejected
\* call, else the message list.
HostMessage(role, id, parts) == [role |-> role, id |-> id, parts |-> parts]

FetchResponses ==
  {None, Some(<<>>)}
    \cup {Some(<<HostMessage("user", Some("u1"), <<TextPart("hi")>>),
                 HostMessage("assistant", Some("a1"), <<TextPart(" ok ")>>)>>)}
    \cup {Some(<<HostMessage("assistant", None, <<TextPart("fine")>>),
                 HostMessage("user", Some("u1"), <<TextPart("hi")>>)>>)}

Summaries == {"", "summary of the session"}
ProviderLimits == {None, Some(1000)}
LookupOutcomes == {"ok", "noinfo", "error"}

Fact(uuid, txt, validAt, invalidAt, src, tgt) ==
  [uuid |-> uuid, fact |-> txt, valid_at |-> validAt,
   invalid_at |-> invalidAt, source_node |-> src, target_node |-> tgt]

Node(uuid, name, labels, summary) ==
  [uuid |-> uuid, name |-> name, labels |-> labels, summary |-> summary]

F1 == Fact("f1", "uses postgres", None, None, None, None)
F2 == Fact("f2", "prefers tabs", Time(Now - 3 * DAY_MS), None,
           Some([uuid |-> "n1", name |-> "editor"]), None)
F3 == Fact("f3", "old deploy target", None, Time(Now - DAY_MS), None, None)
F4 == Fact("f4", "likes short answers", BadTime, None, None, None)
N1 == Node("n1", "editor", <<"Tool">>, "the text editor")
N2 == Node("n2", "ci", <<>>, "")

\* Answers of the graph service to a fact search and to a node search
FactResponses == {None, Some(<<F1, F2, F1>>)}
NodeResponses == {None, Some(<<N1, N2>>)}
UserFactResponses == {Some(<<>>), Some(<<F4>>)}
UserNodeResponses == {Some(<<>>)}
DriftResponses == {None, Some(<<F1, F2>>), Some(<<F1, F2, F3>>)}

StoredEpisode(content, description, createdAt) ==
  [content |-> content, sourceDescription |-> description,
   source_description |-> None, created_at |-> createdAt]

EpisodeResponses ==
  {None,
   Some(<<StoredEpisode("Session s1 working snapshot",
                        Some("session-snapshot"), Time(Now - DAY_MS))>>)}

\* What the compacting hook is run against: a fact that records a
\* decision, the answers of the project fact search, the context strings
\* the host passes in output.context and the context limits the provider
\* lists.
F5 == Fact("f5", "We decided on REST", None, None, None, None)

CompactionFactResponses == {None, Some(<<F1, F2, F5, F1>>)}

CompactingContexts ==
  {<<>>, <<"", " ">>, <<" ", "", "", "later">>, <<"fix the login bug">>,
   <<"", "db schema">>}

CompactingLimits == {None, Some(1000), Some(5000)}

\* The message lists the host hands to the transform hook.
PromptMessage(role, s, parts) ==
  [role |-> role, sessionID |-> s, parts |-> parts]

TransformMessages ==
  {<<PromptMessage("user", "s1", <<TextPart("hi")>>)>>,
   <<PromptMessage("user", "s1",
       <<TextPart("<memory data-uuids=\"f1,f2\">\nx\n</memory>\n\nhi")>>),
     PromptMessage("assistant", "s1", <<TextPart("ok")>>),
     PromptMessage("user", "s1", <<FilePart, TextPart("more")>>)>>,
   <<PromptMessage("user", "s1",
       <<TextPart("<memory>\nx\n</memory>\n\nhi")>>)>>,
   <<PromptMessage("user", "s1", <<FilePart>>)>>,
   <<PromptMessage("user", "s2", <<TextPart("hi")>>)>>,
   <<PromptMessage("assistant", "s1", <<TextPart("ok")>>)>>}

(***************************************************************************)
(* Applications of the exported functions.  A function is applied to       *)
(* arguments the run starts with; hist.call holds the arguments and, once  *)
(* the function was applied, its name and what it returned.                *)
(***************************************************************************)
NoCall == [fn |-> "none", args |-> [of |-> "none"], out |-> <<>>]

Pending(args) == [fn |-> "pending", args |-> args, out |-> <<>>]

\* The sequences over S of length at most n
SeqsUpTo(S, n) == UNION {[1..k -> S] : k \in 0..n}

\* Facts for the functions of services/compaction.ts: two with a decision
\* keyword (one short and undated, one long and a day old), one whose
\* validity began exactly 7 days ago, one that is 8 days old, one whose
\* validity begins tomorrow and one with an unparsable start.
D1 == Fact("d1", "must use utc", None, None, None, None)
D2 == Fact("d2", "We DECIDED on a long-winded transport protocol", Time(Now - DAY_MS), None, None, None)
A1 == Fact("a1", "mustard stock", Time(Now - 7 * DAY_MS), None, None, None)
B1 == Fact("b1", "old db", Time(Now - 8 * DAY_MS), None, None, None)
X1 == Fact("x1", "next api", Time(Now + DAY_MS), None, None, None)
U1 == Fact("u1", "tabs", BadTime, None, None, None)

CompactionFacts == {D1, D2, A1, B1, X1, U1}
SelectionBudgets == {-1, 0, 30, 70}

SelectionInputs ==
  {Pending([of |-> "facts", facts |-> facts, budget |-> budget]) :
     facts \in SeqsUpTo(CompactionFacts, MaxFacts),
     budget \in SelectionBudgets}

SplitInputs ==
  {Pending([of |-> "budget", budget |-> budget]) : budget \in 0..MaxBudget}

\* The function fn is applied to arguments of the kind `of` and returns out
Apply(of, fn, out) ==
  /\ hist.call.fn = "pending"
  /\ hist.call.args.of = of
  /\ hist' = [hist EXCEPT !.call = [@ EXCEPT !.fn = fn, !.out = out]]
  /\ UNCHANGED <<sessions, heap, parentIdCache, pendingAssistantMessages,
                 bufferedAssistantMessageIds, contextLimitCache, compactionState, task,
                 episodes, nEvents>>

CallClassifyFacts ==
  Apply("facts", "classifyFacts", classifyFacts(hist.call.args.facts, Now))

CallTakeFactsWithinBudget ==
  Apply("facts", "takeFactsWithinBudget",
        takeFactsWithinBudget(hist.call.args.facts, hist.call.args.budget,
                              Now, FactStaleDays))

CallSplitScopes ==
  Apply("budget", "splitScopes", splitScopes(hist.call.args.budget))

CallSplitTiers ==
  Apply("budget", "splitTiers", splitTiers(hist.call.args.budget))

\* Identifiers for computeJaccardSimilarity
SimilarityUuids == {"f1", "f2", "f3"}

SimilarityInputs ==
  {Pending([of |-> "uuids", left |-> left, right |-> right]) :
     left \in SeqsUpTo(SimilarityUuids, MaxFacts),
     right \in SeqsUpTo(SimilarityUuids, MaxFacts)}

\* Facts and entities for deduplicateContext: k1 is about the entities n1
\* and n2, a second fact with the identifier k1 is about n3, and k2, which
\* is about n3 as well, expired a day ago; two entities have the
\* identifier n3.
K1 == Fact("k1", "api uses rest", None, None, Some([uuid |-> "n1", name |-> "api"]), Some([uuid |-> "n2", name |-> "rest"]))
K1Again == Fact("k1", "api uses grpc", None, None, None, Some([uuid |-> "n3", name |-> "heroku"]))
K2 == Fact("k2", "was on heroku", None, Time(Now - DAY_MS), Some([uuid |-> "n3", name |-> "heroku"]), None)
M1 == Node("n1", "api", <<>>, "the public api")
M3 == Node("n3", "heroku", <<"Host">>, "")
M3Again == Node("n3", "heroku (old)", <<>>, "")

ContextInputs ==
  {Pending([of |-> "context", facts |-> facts, nodes |-> nodes]) :
     facts \in SeqsUpTo({K1, K1Again, K2}, MaxFacts),
     nodes \in SeqsUpTo({M1, M3, M3Again}, MaxFacts)}

\* Facts for the validity filter: undated, expired a day ago, beginning
\* tomorrow, with unparsable times, beginning and ending exactly now, and
\* begun 3 days ago with an end tomorrow.
V1 == Fact("v1", "alpha", None, None, None, None)
V2 == Fact("v2", "beta", None, Time(Now - DAY_MS), None, None)
V3 == Fact("v3", "gamma", Time(Now + DAY_MS), None, None, None)
V4 == Fact("v4", "delta", BadTime, BadTime, None, None)
V5 == Fact("v5", "epsilon", Time(Now), Time(Now), None, None)
V6 == Fact("v6", "zeta", Time(Now - 3 * DAY_MS), Time(Now + DAY_MS), None, None)

ValidityInputs ==
  {Pending([of |-> "validity", facts |-> facts]) :
     facts \in SeqsUpTo({V1, V2, V3, V4, V5, V6}, MaxFacts)}

CallComputeJaccardSimilarity ==
  Apply("uuids", "computeJaccardSimilarity",
        computeJaccardSimilarity(hist.call.args.left, hist.call.args.right))

CallDeduplicateFactsByUuid ==
  Apply("context", "deduplicateFactsByUuid",
        deduplicateByUuid(hist.call.args.facts))

CallDeduplicateNodesByUuid ==
  Apply("context", "deduplicateNodesByUuid",
        deduplicateByUuid(hist.call.args.nodes))

CallDeduplicateContext ==
  Apply("context", "deduplicateContext",
        deduplicateContext(hist.call.args.facts, hist.call.args.nodes))

\* The facts are filtered and formatted as the context of a scope is
CallFormatMemoryContext ==
  Apply("validity", "formatMemoryContext",
        [kept |-> filterAndAnnotateFacts(hist.call.args.facts, Now,
                                         FactStaleDays),
         text |-> formatMemoryContext(hist.call.args.facts, <<>>, Now,
                                      FactStaleDays)])

\* A fact for annotateStaleFact, by its times: no start, an unparsable
\* start, or a start a millisecond before, at or after a whole number of
\* days before now; no end, an end a day ago or an end tomorrow.
MaxAge == 4
StaleStarts ==
  {None, BadTime}
    \cup {Time(Now - age * DAY_MS + ms) : age \in 0..MaxAge, ms \in {-1, 0, 1}}
StaleEnds == {None, Time(Now - DAY_MS), Time(Now + DAY_MS)}

StaleInputs ==
  {Pending([of |-> "stale",
            fact |-> Fact("s1", "deploys on friday", validAt, invalidAt,
                          None, None),
            factStaleDays |-> days]) :
     validAt \in StaleStarts, invalidAt \in StaleEnds,
     days \in 0..(FactStaleDays + 1)}

CallAnnotateStaleFact ==
  Apply("stale", "annotateStaleFact",
        annotateStaleFact(hist.call.args.fact, Now,
                          hist.call.args.factStaleDays))

(***************************************************************************)
(* Preemptive compaction (services/compaction.ts,                          *)
(* createPreemptiveCompactionHandler).  The handler keeps its own state;   *)
(* an invocation of checkAndTriggerCompaction is a task of kind "preempt". *)
(* Date.now() is read as any time not before the times recorded so far.    *)
(***************************************************************************)
NoCompactions ==
  [lastCompactionTime |-> EmptyMap, compactionInProgress |-> {},
   contextLimitCache |-> EmptyMap]

\* state.lastCompactionTime.get(sessionId) ?? 0
lastCompactionOf(cs, s) ==
  IF s \in DOMAIN cs.lastCompactionTime THEN cs.lastCompactionTime[s] ELSE 0

\* finally: state.compactionInProgress.delete(sessionId)
compactionFinished(cs, s) ==
  [cs EXCEPT !.compactionInProgress = @ \ {s}]

\* Lines 146-159: the context limit is known; with usageRatio below
\* config.compactionThreshold the call returns, otherwise the session is
\* marked and the toast is awaited.
afterContextLimit(tk, cs, contextLimit) ==
  IF tk.totalTokens * CompactionThresholdDen
       < CompactionThresholdNum * contextLimit
  THEN [task |-> Done([tk EXCEPT !.limit = contextLimit], "below"),
        state |-> cs]
  ELSE [task |-> [tk EXCEPT !.limit = contextLimit, !.pc = "toast"],
        state |-> [cs EXCEPT !.compactionInProgress = @ \cup {tk.sid}]]

\* Lines 118-145: checkAndTriggerCompaction up to await
\* resolveContextLimit(...), which returns the cached limit or awaits
\* provider.list.
StartCheck(t, s, totalTokens, model, now) ==
  /\ FirstFree(t)
  /\ nEvents < MaxEvents
  /\ nEvents' = nEvents + 1
  /\ now >= lastCompactionOf(compactionState, s)
  /\ LET tk == [NoTask EXCEPT !.kind = "preempt", !.sid = s,
                              !.totalTokens = totalTokens,
                              !.model = Some(model)]
         cached == model \in DOMAIN compactionState.contextLimitCache
     IN task' = [task EXCEPT ![t] =
          IF totalTokens < MinTokensForCompaction THEN Done(tk, "fewtokens")
          ELSE IF s \in compactionState.compactionInProgress
          THEN Done(tk, "inprogress")
          ELSE IF now - lastCompactionOf(compactionState, s)
                    < CompactionCooldownMs
          THEN Done(tk, "cooldown")
          ELSE IF cached
          THEN [tk EXCEPT !.pc = "limitKnown",
                          !.limit = compactionState.contextLimitCache[model]]
          ELSE [tk EXCEPT !.pc = "providers"]]
  /\ UNCHANGED <<sessions, heap, parentIdCache, pendingAssistantMessages,
                 bufferedAssistantMessageIds, contextLimitCache,
                 compactionState, episodes, hist>>

\* The await of a cached limit resumes.
LimitKnown(t) ==
  /\ task[t].pc = "limitKnown"
  /\ LET r == afterContextLimit(task[t], compactionState, task[t].limit)
     IN /\ task' = [task EXCEPT ![t] = r.task]
        /\ compactionState' = r.state
  /\ UNCHANGED <<sessions, heap, parentIdCache, pendingAssistantMessages,
                 bufferedAssistantMessageIds, contextLimitCache, episodes,
                 nEvents, hist>>

\* provider.list answered: `found` is the positive limit listed for the
\* model, None when the call fails or lists none (the default is cached).
ProvidersReturn(t, found) ==
  /\ task[t].pc = "providers"
  /\ LET limit == IF IsSome(found) THEN Get(found) ELSE DefaultContextLimit
         cs == [compactionState EXCEPT !.contextLimitCache =
                  MapSet(@, Get(task[t].model), limit)]
         r == afterContextLimit(task[t], cs, limit)
     IN /\ task' = [task EXCEPT ![t] = r.task]
        /\ compactionState' = r.state
  /\ UNCHANGED <<sessions, heap, parentIdCache, pendingAssistantMessages,
                 bufferedAssistantMessageIds, contextLimitCache, episodes,
                 nEvents, hist>>

\* tui.showToast settled: session.summarize is requested, or the error is
\* caught and the mark removed.
ToastReturn(t, ok) ==
  /\ task[t].pc = "toast"
  /\ IF ok
     THEN /\ task' = [task EXCEPT ![t].pc = "summarize"]
          /\ compactionState' = compactionState
     ELSE /\ task' = [task EXCEPT ![t] = Done(task[t], "failed")]
          /\ compactionState' =
               compactionFinished(compactionState, task[t].sid)
  /\ UNCHANGED <<sessions, heap, parentIdCache, pendingAssistantMessages,
                 bufferedAssistantMessageIds, contextLimitCache, episodes,
                 nEvents, hist>>

\* session.summarize settled at time `now`; autoResume is
\* config.autoResumeAfterCompaction.
SummarizeReturn(t, ok, now, autoResume) ==
  /\ task[t].pc = "summarize"
  /\ now >= lastCompactionOf(compactionState, task[t].sid)
  /\ LET timed == [compactionState EXCEPT !.lastCompactionTime =
                     MapSet(@, task[t].sid, now)]
     IN IF ~ok
        THEN /\ task' = [task EXCEPT ![t] = Done(task[t], "failed")]
             /\ compactionState' =
                  compactionFinished(compactionState, task[t].sid)
        ELSE IF autoResume
        THEN /\ task' = [task EXCEPT ![t].pc = "delay"]
             /\ compactionState' = timed
        ELSE /\ task' = [task EXCEPT ![t] = Done(task[t], "compacted")]
             /\ compactionState' = compactionFinished(timed, task[t].sid)
  /\ UNCHANGED <<sessions, heap, parentIdCache, pendingAssistantMessages,
                 bufferedAssistantMessageIds, contextLimitCache, episodes,
                 nEvents, hist>>

\* delay(RESUME_DELAY_MS) elapsed: session.promptAsync is requested.
DelayReturn(t) ==
  /\ task[t].pc = "delay"
  /\ task' = [task EXCEPT ![t].pc = "prompt"]
  /\ UNCHANGED <<sessions, heap, parentIdCache, pendingAssistantMessages,
                 bufferedAssistantMessageIds, contextLimitCache,
                 compactionState, episodes, nEvents, hist>>

\* session.promptAsync settled; finally removes the mark.
PromptReturn(t, ok) ==
  /\ task[t].pc = "prompt"
  /\ task' = [task EXCEPT ![t] =
       Done(task[t], IF ok THEN "compacted" ELSE "failed")]
  /\ compactionState' = compactionFinished(compactionState, task[t].sid)
  /\ UNCHANGED <<sessions, heap, parentIdCache, pendingAssistantMessages,
                 bufferedAssistantMessageIds, contextLimitCache, episodes,
                 nEvents, hist>>

(***************************************************************************)
(* Specifications.  The plugin starts with empty stores.  The host         *)
(* delivers session.created at most once per session, before any other    *)
(* event of that session.                                                  *)
(***************************************************************************)
Init ==
  /\ sessions = EmptyMap
  /\ heap = <<>>
  /\ parentIdCache = EmptyMap
  /\ pendingAssistantMessages = EmptyMap
  /\ bufferedAssistantMessageIds = {}
  /\ contextLimitCache = EmptyMap
  /\ compactionState = NoCompactions
  /\ task = [t \in Tasks |-> NoTask]
  /\ episodes = [count |-> 0, last |-> None]
  /\ nEvents = 0
  /\ hist = [adds |-> [k \in Keys |-> 0], attempted |-> {},
             lastPart |-> [k \in Keys |-> None], transform |-> None,
             call |-> NoCall]

Unseen(s) ==
  /\ s \notin DOMAIN parentIdCache
  /\ s \notin DOMAIN sessions
  /\ \A t \in Tasks : task[t].sid # s

\* The plugin has been told of session s (session.created, or a lookup).
Known(s) == s \in DOMAIN parentIdCache

(***************************************************************************)
(* The flush pipeline: one primary session whose user turns are buffered   *)
(* by chat.message and flushed by session.idle and session.compacted; the  *)
(* graph service has no memories to return.                                *)
(***************************************************************************)
FlushChatParts == {<<TextPart("hi")>>, <<TextPart(LongText)>>}

Next ==
  \/ Unseen("s1") /\ SessionCreated("s1")
  \/ \E t \in Tasks : Known("s1") /\ StartIdle(t, "s1")
  \/ \E t \in Tasks, x \in Summaries :
       Known("s1") /\ StartCompacted(t, "s1", x)
  \/ \E t \in Tasks, p \in FlushChatParts :
       Known("s1") /\ StartChat(t, "s1", p)
  \/ \E t \in Tasks : IdleResolved(t)
  \/ \E t \in Tasks, ok \in BOOLEAN : SnapshotReturn(t, ok)
  \/ \E t \in Tasks : CompactedResolved(t)
  \/ \E t \in Tasks : \E r \in FetchResponses : FetchReturn(t, r)
  \/ \E t \in Tasks, ok \in BOOLEAN : WriteReturn(t, ok)
  \/ \E t \in Tasks, ok \in BOOLEAN : SummaryReturn(t, ok)
  \/ \E t \in Tasks : ChatIsSub(t)
  \/ \E t \in Tasks : ChatResolved(t)
  \/ \E t \in Tasks : DriftReturn(t, None)
  \/ \E t \in Tasks : RetrievalReturn(t, None, None, None, None)

Spec == Init /\ [][Next]_vars

\* The flush pipeline when the host may send session.created for the
\* session again, or after a hook has created the session's state.
LifecycleNext ==
  \/ Unseen("s1") /\ SessionCreated("s1")
  \/ SessionCreatedAgain("s1")
  \/ \E t \in Tasks : Known("s1") /\ StartIdle(t, "s1")
  \/ \E t \in Tasks : Known("s1") /\ StartCompacted(t, "s1", "")
  \/ \E t \in Tasks : Known("s1") /\ StartChat(t, "s1", <<TextPart("hi")>>)
  \/ \E t \in Tasks : IdleResolved(t)
  \/ \E t \in Tasks, ok \in BOOLEAN : SnapshotReturn(t, ok)
  \/ \E t \in Tasks : CompactedResolved(t)
  \/ \E t \in Tasks : \E r \in FetchResponses : FetchReturn(t, r)
  \/ \E t \in Tasks, ok \in BOOLEAN : WriteReturn(t, ok)
  \/ \E t \in Tasks : ChatIsSub(t)
  \/ \E t \in Tasks : ChatResolved(t)
  \/ \E t \in Tasks : DriftReturn(t, None)
  \/ \E t \in Tasks : RetrievalReturn(t, None, None, None, None)

LifecycleSpec == Init /\ [][LifecycleNext]_vars

(***************************************************************************)
(* The flush pipeline when flushes keep coming: the host goes on sending   *)
(* session.compacted, whose flush has the threshold 0, for as long as it   *)
(* runs; user turns, idle events and rejected episode writes are limited   *)
(* by the event budget, so from some point on every write is accepted.     *)
(* Every await of a handler settles (weak fairness of its continuation).   *)
(***************************************************************************)
\* The fallback fetch is rejected or brings the reply a1.
KeepFlushingResponses ==
  {None,
   Some(<<HostMessage("user", Some("u1"), <<TextPart("hi")>>),
          HostMessage("assistant", Some("a1"), <<TextPart(" ok ")>>)>>)}

\* session.compacted without a summary, not counted against the budget
FlushTriggered(t, s) ==
  /\ FirstFree(t)
  /\ task' = [task EXCEPT ![t] =
       resolveParentIdCall([NoTask EXCEPT !.kind = "compacted", !.sid = s],
                           "resolved")]
  /\ UNCHANGED <<sessions, heap, parentIdCache, pendingAssistantMessages,
                 bufferedAssistantMessageIds, contextLimitCache, compactionState, episodes,
                 hist, nEvents>>

\* addEpisode of a flush rejects; counted against the budget
WriteRejected(t) ==
  /\ nEvents < MaxEvents
  /\ nEvents' = nEvents + 1
  /\ addEpisodeSettled(t, FALSE)

KeepFlushingNext ==
  \/ Unseen("s1") /\ SessionCreated("s1")
  \/ \E t \in Tasks : Known("s1") /\ FlushTriggered(t, "s1")
  \/ \E t \in Tasks : Known("s1") /\ StartIdle(t, "s1")
  \/ \E t \in Tasks : Known("s1") /\ StartChat(t, "s1", <<TextPart("hi")>>)
  \/ \E t \in Tasks : IdleResolved(t)
  \/ \E t \in Tasks : SnapshotReturn(t, TRUE)
  \/ \E t \in Tasks : CompactedResolved(t)
  \/ \E t \in Tasks : \E r \in KeepFlushingResponses : FetchReturn(t, r)
  \/ \E t \in Tasks : WriteReturn(t, TRUE)
  \/ \E t \in Tasks : WriteRejected(t)
  \/ \E t \in Tasks : ChatIsSub(t)
  \/ \E t \in Tasks : ChatResolved(t)
  \/ \E t \in Tasks : DriftReturn(t, None)
  \/ \E t \in Tasks : RetrievalReturn(t, None, None, None, None)

\* The handler in slot t gets over its await.
Settles(t) ==
  \/ IdleResolved(t)
  \/ SnapshotReturn(t, TRUE)
  \/ CompactedResolved(t)
  \/ \E r \in KeepFlushingResponses : FetchReturn(t, r)
  \/ WriteReturn(t, TRUE)
  \/ ChatIsSub(t)
  \/ ChatResolved(t)
  \/ DriftReturn(t, None)
  \/ RetrievalReturn(t, None, None, None, None)

\* Weak fairness of the trigger and of every handler's continuation.  A
\* slot that is not free is at an await whose continuation Settles(t) is
\* enabled, so ENABLED <<Settles(t)>>_vars is ~Free(t) and weak fairness
\* of Settles(t) is written out with it.
KeepFlushingFairness ==
  /\ WF_vars(\E t \in Tasks : Known("s1") /\ FlushTriggered(t, "s1"))
  /\ \A t \in Tasks : []<>Free(t) \/ []<><<Settles(t)>>_vars

KeepFlushingSpec ==
  Init /\ [][KeepFlushingNext]_vars /\ KeepFlushingFairness

(***************************************************************************)
(* Preemptive compaction: completed assistant messages of the sessions     *)
(* report their token counts, and the checks they start run concurrently.  *)
(***************************************************************************)
TokenTotals == {40000, 100000, 170000}
CompactionTimes == {Now, Now + 1000, Now + CompactionCooldownMs}
ListedLimits == {None, Some(100000)}

PreemptiveNext ==
  \/ \E t \in Tasks, s \in Sessions, k \in TokenTotals,
        d \in CompactionTimes :
       StartCheck(t, s, k, "anthropic/small", d)
  \/ \E t \in Tasks : LimitKnown(t)
  \/ \E t \in Tasks, l \in ListedLimits : ProvidersReturn(t, l)
  \/ \E t \in Tasks, ok \in BOOLEAN : ToastReturn(t, ok)
  \/ \E t \in Tasks, ok \in BOOLEAN, d \in CompactionTimes,
        autoResume \in BOOLEAN :
       SummarizeReturn(t, ok, d, autoResume)
  \/ \E t \in Tasks : DelayReturn(t)
  \/ \E t \in Tasks, ok \in BOOLEAN : PromptReturn(t, ok)

PreemptiveSpec == Init /\ [][PreemptiveNext]_vars

(***************************************************************************)
(* The assistant-reply pipeline: streamed parts and message.updated events *)
(* of one primary session, with a user turn and an idle flush whose        *)
(* fallback fetch may bring the same reply.                                *)
(***************************************************************************)
AssistantNext ==
  \/ Unseen("s1") /\ SessionCreated("s1")
  \/ \E p \in StreamParts : Known("s1") /\ MessagePartUpdated("s1", "a1", p)
  \/ \E t \in Tasks, m \in {"a1", "u1"}, c \in BOOLEAN :
       Known("s1") /\ StartMessageUpdated(t, "s1", m, c, None)
  \/ \E t \in Tasks : Known("s1") /\ StartChat(t, "s1", <<TextPart(LongText)>>)
  \/ \E t \in Tasks : Known("s1") /\ StartIdle(t, "s1")
  \/ \E t \in Tasks : UpdatedResolved(t)
  \/ \E t \in Tasks : IdleResolved(t)
  \/ \E t \in Tasks, ok \in BOOLEAN : SnapshotReturn(t, ok)
  \/ \E t \in Tasks : \E r \in FetchResponses : FetchReturn(t, r)
  \/ \E t \in Tasks, ok \in BOOLEAN : WriteReturn(t, ok)
  \/ \E t \in Tasks : ChatIsSub(t)
  \/ \E t \in Tasks : ChatResolved(t)
  \/ \E t \in Tasks : DriftReturn(t, None)
  \/ \E t \in Tasks : RetrievalReturn(t, None, None, None, None)

AssistantSpec == Init /\ [][AssistantNext]_vars

(***************************************************************************)
(* Session resolution: a primary session and a subagent session, with or   *)
(* without session.created, and a host lookup that may fail.               *)
(***************************************************************************)
ResolveNext ==
  \/ \E s \in Sessions : Unseen(s) /\ SessionCreated(s)
  \/ \E t \in Tasks, s \in Sessions : StartIdle(t, s)
  \/ \E t \in Tasks, s \in Sessions : StartChat(t, s, <<TextPart(LongText)>>)
  \/ \E t \in Tasks, s \in Sessions :
       \E m \in {x \in SessionMsgs(s) : MsgRole(x) = "assistant"} :
         StartMessageUpdated(t, s, m, TRUE, None)
  \/ \E t \in Tasks, o \in LookupOutcomes : LookupReturn(t, o)
  \/ \E t \in Tasks : UpdatedResolved(t)
  \/ \E t \in Tasks : IdleResolved(t)
  \/ \E t \in Tasks : SnapshotReturn(t, TRUE)
  \/ \E t \in Tasks : FetchReturn(t, None)
  \/ \E t \in Tasks : WriteReturn(t, TRUE)
  \/ \E t \in Tasks : ChatIsSub(t)
  \/ \E t \in Tasks : ChatResolved(t)
  \/ \E t \in Tasks : DriftReturn(t, None)
  \/ \E t \in Tasks : RetrievalReturn(t, None, None, None, None)

ResolveSpec == Init /\ [][ResolveNext]_vars

(***************************************************************************)
(* Memory retrieval: the chat.message hook of one primary session against  *)
(* a graph service that has memories, with a model whose context limit the *)
(* provider lists.                                                         *)
(***************************************************************************)
ChatNext ==
  \/ Unseen("s1") /\ SessionCreated("s1")
  \/ \E t \in Tasks, p \in ChatParts : Known("s1") /\ StartChat(t, "s1", p)
  \/ \E t \in Tasks :
       Known("s1")
         /\ StartMessageUpdated(t, "s1", "a1", TRUE, Some("anthropic/small"))
  \/ \E t \in Tasks : UpdatedResolved(t)
  \/ \E t \in Tasks, l \in ProviderLimits : LimitReturn(t, l)
  \/ \E t \in Tasks : LimitThen(t)
  \/ \E t \in Tasks : ChatIsSub(t)
  \/ \E t \in Tasks : ChatResolved(t)
  \/ \E t \in Tasks, r \in DriftResponses : DriftReturn(t, r)
  \/ \E t \in Tasks, pf \in FactResponses, pn \in NodeResponses,
        uf \in UserFactResponses, un \in UserNodeResponses :
       RetrievalReturn(t, pf, pn, uf, un)
  \/ \E t \in Tasks, r \in EpisodeResponses : EpisodesReturn(t, r)

ChatSpec == Init /\ [][ChatNext]_vars

(***************************************************************************)
(* Injection: the chat.message hook caches a context for one primary      *)
(* session and the transform hook puts it in front of the user's text.     *)
(* The graph service answers with facts only.                              *)
(***************************************************************************)
InjectNext ==
  \/ Unseen("s1") /\ SessionCreated("s1")
  \/ \E t \in Tasks :
       Known("s1") /\ StartChat(t, "s1", <<TextPart("hi")>>)
  \/ \E t \in Tasks : ChatIsSub(t)
  \/ \E t \in Tasks : ChatResolved(t)
  \/ \E t \in Tasks, r \in DriftResponses : DriftReturn(t, r)
  \/ \E t \in Tasks, pf \in FactResponses, uf \in UserFactResponses :
       RetrievalReturn(t, pf, None, uf, Some(<<>>))
  \/ \E t \in Tasks, r \in EpisodeResponses : EpisodesReturn(t, r)
  \/ \E m \in TransformMessages : Known("s1") /\ MessagesTransform(m)

InjectSpec == Init /\ [][InjectNext]_vars

(***************************************************************************)
(* Compaction context: the compacting hook of a primary session whose     *)
(* context limit the provider may list, against a graph service that has   *)
(* memories.                                                               *)
(***************************************************************************)
CompactingNext ==
  \/ Unseen("s1") /\ SessionCreated("s1")
  \/ \E t \in Tasks :
       Known("s1")
         /\ StartMessageUpdated(t, "s1", "a1", TRUE, Some("anthropic/small"))
  \/ \E t \in Tasks : UpdatedResolved(t)
  \/ \E t \in Tasks, l \in CompactingLimits : LimitReturn(t, l)
  \/ \E t \in Tasks : LimitThen(t)
  \/ \E t \in Tasks, s \in Sessions, c \in CompactingContexts :
       Known("s1") /\ StartCompacting(t, s, c)
  \/ \E t \in Tasks, pf \in CompactionFactResponses, pn \in NodeResponses,
        uf \in UserFactResponses, un \in UserNodeResponses :
       CompactingReturn(t, pf, pn, uf, un)

CompactingSpec == Init /\ [][CompactingNext]_vars

\* The functions of services/compaction.ts applied to lists of facts and to
\* budgets
Applied(inputs) ==
  /\ sessions = EmptyMap
  /\ heap = <<>>
  /\ parentIdCache = EmptyMap
  /\ pendingAssistantMessages = EmptyMap
  /\ bufferedAssistantMessageIds = {}
  /\ contextLimitCache = EmptyMap
  /\ compactionState = NoCompactions
  /\ task = [t \in Tasks |-> NoTask]
  /\ episodes = [count |-> 0, last |-> None]
  /\ nEvents = 0
  /\ hist \in {[adds |-> [k \in Keys |-> 0], attempted |-> {},
                lastPart |-> [k \in Keys |-> None], transform |-> None,
                call |-> c] : c \in inputs}

CompactionFunctionsInit == Applied(SelectionInputs \cup SplitInputs)

CompactionFunctionsNext ==
  \/ CallClassifyFacts
  \/ CallTakeFactsWithinBudget
  \/ CallSplitScopes
  \/ CallSplitTiers

CompactionFunctionsSpec ==
  CompactionFunctionsInit /\ [][CompactionFunctionsNext]_vars

\* The functions of services/context.ts and computeJaccardSimilarity
\* applied to lists of identifiers, facts and entities
ContextFunctionsInit ==
  Applied(SimilarityInputs \cup ContextInputs \cup ValidityInputs
            \cup StaleInputs)

ContextFunctionsNext ==
  \/ CallComputeJaccardSimilarity
  \/ CallDeduplicateFactsByUuid
  \/ CallDeduplicateNodesByUuid
  \/ CallDeduplicateContext
  \/ CallFormatMemoryContext
  \/ CallAnnotateStaleFact

ContextFunctionsSpec == ContextFunctionsInit /\ [][ContextFunctionsNext]_vars



(***************************************************************************)
(* Outage: the chat.message hook of one primary session against a graph   *)
(* service every call of which may fail.                                   *)
(***************************************************************************)
OutageUserFacts == {None, Some(<<F4>>)}
OutageUserNodes == {None, Some(<<>>)}

OutageNext ==
  \/ Unseen("s1") /\ SessionCreated("s1")
  \/ \E t \in Tasks :
       Known("s1") /\ StartChat(t, "s1", <<TextPart("hi")>>)
  \/ \E t \in Tasks : ChatIsSub(t)
  \/ \E t \in Tasks : ChatResolved(t)
  \/ \E t \in Tasks, r \in DriftResponses : DriftReturn(t, r)
  \/ \E t \in Tasks, pf \in FactResponses, pn \in NodeResponses,
        uf \in OutageUserFacts, un \in OutageUserNodes :
       RetrievalReturn(t, pf, pn, uf, un)
  \/ \E t \in Tasks, r \in EpisodeResponses : EpisodesReturn(t, r)

OutageSpec == Init /\ [][OutageNext]_vars

(***************************************************************************)
(* Properties.                                                             *)
(***************************************************************************)
\* The pending buffer of session s (empty when s has no state).
Buffer(s) ==
  IF s \in DOMAIN sessions THEN heap[sessions[s]].pendingMessages ELSE <<>>

IsPrefix(a, b) == Len(a) <= Len(b) /\ SubSeq(b, 1, Len(a)) = a

\* Flush t's episode write is rejected in this step.
WriteFails(t) ==
  task[t].pc = "write" /\ task'[t].pc # "write" /\ task'[t].fout = "failed"

\* Flush t's episode write is accepted in this step.
WriteSucceeds(t) ==
  task[t].pc = "write" /\ task'[t].pc # "write" /\ task'[t].fout = "written"

\* C1 as claimed: when the episode write of a flush fails, the buffer
\* afterwards is the messages taken for the flush followed by every message
\* that arrived while the write was in flight.
C1_AsClaimed ==
  [][\A t \in Tasks :
       WriteFails(t) =>
         Buffer(task[t].sid)' = task[t].toFlush \o task[t].arrived]_vars

\* C1, corrected: when the episode write of a flush fails, the buffer
\* afterwards is the messages taken for the flush, in their order, followed
\* by the messages the buffer holds at that moment, in their order; these
\* are exactly the messages that arrived while the write was in flight
\* unless another flush of the session took or restored messages meanwhile.
C1_FailedFlushRestores ==
  [][\A t \in Tasks :
       WriteFails(t) =>
         /\ Buffer(task[t].sid)' = task[t].toFlush \o Buffer(task[t].sid)
         /\ ~task[t].overlap => Buffer(task[t].sid) = task[t].arrived]_vars

\* A flush failed after messages had arrived during its write, with no
\* other flush in between, and the buffer holds both groups.
C1_Witness ==
  \E t \in Tasks :
    /\ task[t].pc = "done" /\ task[t].fout = "failed"
    /\ ~task[t].overlap
    /\ Len(task[t].arrived) > 0
    /\ Buffer(task[t].sid) = task[t].toFlush \o task[t].arrived

\* Flush t passes or fails the size gate in this step.
GateTaken(t) == task[t].pc \in {"snapshot", "resolved", "fetch"}
                  /\ task'[t].pc = "write"
GateBelow(t) == task[t].pc \in {"snapshot", "resolved", "fetch"}
                  /\ task'[t].pc # "fetch" /\ task'[t].fout = "below"

\* C2: a flush whose buffered entries, joined with a blank line, are
\* shorter than minBytes writes no episode and leaves the messages
\* buffered; otherwise the buffer is emptied and, when the write succeeds,
\* exactly one episode whose body is the joined text is written and none of
\* the flushed messages returns to the buffer.  minBytes is 50 on idle and
\* 0 before compaction.
C2_FlushGate ==
  [][\A t \in Tasks :
       /\ GateBelow(t) =>
            /\ Len(Join(Buffer(task[t].sid)', "\n\n")) < task'[t].minBytes
            /\ IsPrefix(Buffer(task[t].sid), Buffer(task[t].sid)')
            /\ \/ episodes' = episodes
               \/ /\ task[t].pc = "snapshot"
                  /\ Get(episodes'.last).sourceDescription = "session-snapshot"
       /\ GateTaken(t) =>
            /\ Len(Join(task'[t].toFlush, "\n\n")) >= task'[t].minBytes
            /\ task'[t].combined = Join(task'[t].toFlush, "\n\n")
            /\ IsPrefix(Buffer(task[t].sid), task'[t].toFlush)
            /\ Buffer(task[t].sid)' = <<>>
       /\ (GateBelow(t) \/ GateTaken(t)) =>
            task'[t].minBytes = (IF task[t].kind = "idle" THEN 50 ELSE 0)
       /\ WriteSucceeds(t) =>
            /\ episodes'.count = episodes.count + 1
            /\ Get(episodes'.last).episodeBody = Join(task[t].toFlush, "\n\n")
            /\ Buffer(task[t].sid)' = Buffer(task[t].sid)]_vars

\* An idle flush left a buffer shorter than 50 in place while a
\* compaction flush wrote the buffered messages as one episode.
C2_Witness ==
  \E t, u \in Tasks :
    /\ task[t].pc = "done" /\ task[t].fout = "below"
    /\ task[t].minBytes = 50
    /\ task[u].pc = "done" /\ task[u].fout = "written"
    /\ Len(task[u].toFlush) > 1
    /\ episodes.count > 0

\* Flush t begins in this step (flushPendingMessages is entered).
FlushBegins(t) ==
  /\ \/ task[t].kind = "idle" /\ task[t].pc = "snapshot"
     \/ task[t].kind = "compacted" /\ task[t].pc = "resolved"
  /\ task'[t] # task[t]
  /\ task'[t].out \notin {"unresolved", "ignored"}

\* The fallback fetch of flush t returns in this step; Kept is the list the
\* flush goes on with.
FetchReturns(t) == task[t].pc = "fetch" /\ task'[t].pc # "fetch"

\* C10: a flush issues the fallback fetch if and only if the buffer's last
\* entry is a user turn, at most once, and appends the fetched reply only
\* if the reply's identifier is not finalized and the reply is not already
\* in the buffer (for a reply without identifier: its text is in no
\* assistant entry of the buffer).
C10_FallbackFetch ==
  [][\A t \in Tasks :
       /\ FlushBegins(t) =>
            LET buf == Buffer(task[t].sid)'
                kept == IF task'[t].pc = "write" THEN task'[t].toFlush
                        ELSE buf
            IN (task'[t].pc = "fetch")
                 <=> (Len(kept) > 0 /\ StartsWith(kept[Len(kept)], "User:"))
       /\ task'[t].fetches <= 1
       /\ task'[t].fetches > task[t].fetches =>
            FlushBegins(t) /\ task'[t].pc = "fetch"
       /\ FetchReturns(t) =>
            LET before == Buffer(task[t].sid)
                kept == IF task'[t].pc = "write" THEN task'[t].toFlush
                        ELSE Buffer(task[t].sid)'
                reply == task'[t].fetched
                entry == "Assistant: " \o Get(reply).text
            IN \/ kept = before
               \/ /\ IsSome(reply)
                  /\ kept = Append(before, entry)
                  /\ entry \notin Range(before)
                  /\ IF IsSome(Get(reply).id)
                     THEN LET key == Key(task[t].sid, Get(Get(reply).id))
                          IN /\ key \notin bufferedAssistantMessageIds
                             /\ adds[key] = 0
                     ELSE \A i \in 1..Len(before) :
                            StartsWith(before[i], "Assistant:")
                              => ~Includes(before[i], Get(reply).text)]_vars

\* A flush found a user turn last, fetched the latest assistant reply and
\* wrote it behind the user turn.
C10_Witness ==
  \E t \in Tasks :
    /\ task[t].pc = "done" /\ task[t].fout = "written"
    /\ task[t].fetches = 1 /\ IsSome(task[t].fetched)
    /\ task[t].toFlush[Len(task[t].toFlush)]
         = "Assistant: " \o Get(task[t].fetched).text

\* The message.updated of a completed assistant message of a main session
\* is handled in this step: the event hook reaches its finalize.
FinalizeAttempt(t) ==
  /\ task[t].kind = "updated" /\ task[t].pc = "resolved"
  /\ task'[t] # task[t]
  /\ task[t].resolved /\ ~IsSome(task[t].parent)
  /\ task[t].role = "assistant" /\ task[t].completed

\* C8: for each (session, message) identifier at most one "Assistant:"
\* entry is ever pushed to the pending buffer, by message.updated or by a
\* fallback fetch, and a finalize after the first one for the identifier
\* changes nothing, also when the first one found no text.
C8_OneEntryPerMessage ==
  [][/\ \A k \in Keys : adds'[k] <= 1
     /\ \A t \in Tasks :
          (FinalizeAttempt(t) /\ Key(task[t].sid, task[t].mid) \in attempted)
            => /\ Buffer(task[t].sid)' = Buffer(task[t].sid)
               /\ pendingAssistantMessages' = pendingAssistantMessages
               /\ bufferedAssistantMessageIds' = bufferedAssistantMessageIds
               /\ adds' = adds]_vars

\* A second message.updated of a reply returned without effect although
\* the first found no text and text has been streamed since.
C8_Witness ==
  \E t \in Tasks :
    LET key == Key(task[t].sid, task[t].mid)
    IN /\ task[t].pc = "done" /\ task[t].out = "buffered"
       /\ key \in attempted
       /\ adds[key] = 0
       /\ key \in DOMAIN pendingAssistantMessages

\* The first finalize of the identifier of task t happens in this step.
FirstFinalize(t) ==
  FinalizeAttempt(t) /\ Key(task[t].sid, task[t].mid) \notin attempted

\* The text of the most recent bufferAssistantPart call for k, "" if none.
LastPartText(k) == IF IsSome(lastPart[k]) THEN Get(lastPart[k]) ELSE ""

\* C9 as claimed: the first finalize for an identifier removes its
\* pending-assistant entry and appends exactly one "Assistant: ..." entry
\* carrying the text of the most recent bufferAssistantPart call, empty if
\* nothing was buffered.
C9_AsClaimed ==
  [][\A t \in Tasks :
       FirstFinalize(t) =>
         LET key == Key(task[t].sid, task[t].mid)
         IN /\ key \notin DOMAIN pendingAssistantMessages'
            /\ Buffer(task[t].sid)' =
                 Append(Buffer(task[t].sid),
                        "Assistant: " \o LastPartText(key))]_vars

\* C9, corrected: the first finalize for an identifier that no fallback
\* fetch has marked removes its pending-assistant entry, marks the
\* identifier finalized and, when the most recent bufferAssistantPart text
\* is not blank, appends exactly one entry "Assistant: " followed by that
\* text without its leading and trailing whitespace; when nothing was
\* buffered or the text is blank it appends nothing.  When a fallback fetch
\* has marked the identifier, the finalize changes nothing.
C9_FirstFinalize ==
  [][\A t \in Tasks :
       FirstFinalize(t) =>
         LET key == Key(task[t].sid, task[t].mid)
             txt == Trim(LastPartText(key))
         IN IF key \in bufferedAssistantMessageIds
            THEN /\ Buffer(task[t].sid)' = Buffer(task[t].sid)
                 /\ pendingAssistantMessages' = pendingAssistantMessages
                 /\ bufferedAssistantMessageIds' = bufferedAssistantMessageIds
            ELSE /\ key \notin DOMAIN pendingAssistantMessages'
                 /\ key \in bufferedAssistantMessageIds'
                 /\ Buffer(task[t].sid)' =
                      IF txt = "" THEN Buffer(task[t].sid)
                      ELSE Append(Buffer(task[t].sid),
                                  "Assistant: " \o txt)]_vars

\* A streamed reply was finalized: the buffer ends with the text of its
\* last part, trimmed, and the pending entry is gone.
C9_Witness ==
  \E t \in Tasks :
    LET key == Key(task[t].sid, task[t].mid)
        buf == Buffer(task[t].sid)
    IN /\ task[t].pc = "done" /\ task[t].out = "finalized"
       /\ IsSome(lastPart[key])
       /\ Get(lastPart[key]) # Trim(Get(lastPart[key]))
       /\ Len(buf) > 0
       /\ buf[Len(buf)] = "Assistant: " \o Trim(Get(lastPart[key]))
       /\ key \notin DOMAIN pendingAssistantMessages
       /\ adds[key] = 1

\* C6: a session whose resolved parent is non-null never has state in the
\* store, and a hook invocation that resolved such a session got
\* resolved = true and no state (or left before asking, as chat.message
\* does for a subagent).
C6_SubagentStateless ==
  /\ \A s \in DOMAIN parentIdCache :
       IsSome(parentIdCache[s]) => s \notin DOMAIN sessions
  /\ \A s \in Sessions : IsSome(HostParent(s)) => s \notin DOMAIN sessions
  /\ \A t \in Tasks :
       (task[t].pc = "done" /\ task[t].resolved /\ IsSome(task[t].parent))
         => /\ task[t].st = 0
            /\ task[t].out \in {"ignored", "subagent"}

\* An event of the subagent session was resolved to its parent and
\* ignored, and the store holds no state for it.
C6_Witness ==
  \E t \in Tasks :
    /\ task[t].pc = "done" /\ task[t].out = "ignored"
    /\ task[t].resolved /\ task[t].parent = Some("s1")
    /\ task[t].sid \notin DOMAIN sessions
    /\ task[t].sid \in DOMAIN parentIdCache

\* A hook invocation starts in slot t in this step.
Starts(t) == Free(t) /\ ~Free(t)'

\* C7: when the parent lookup fails, nothing is cached, resolveSession
\* returns resolved = false and the hook returns without creating or
\* changing session state; a later resolution of a session that is not
\* cached issues the lookup again.
C7_FailedLookup ==
  [][\A t \in Tasks :
       /\ (task[t].pc = "lookup" /\ task'[t].pc # "lookup"
             /\ task'[t].looked \in {"noinfo", "error"})
            => /\ parentIdCache' = parentIdCache
               /\ ~task'[t].resolved
               /\ sessions' = sessions /\ heap' = heap
       /\ (task[t].pc = "resolved" /\ task'[t] # task[t]
             /\ task[t].looked \in {"noinfo", "error"})
            => /\ task'[t].pc = "done" /\ task'[t].out = "unresolved"
               /\ sessions' = sessions /\ heap' = heap
               /\ parentIdCache' = parentIdCache
       /\ ((Starts(t) \/ (task[t].pc = "isSub" /\ task'[t] # task[t]
                            /\ task'[t].pc # "done"))
             /\ task'[t].sid \notin DOMAIN parentIdCache)
            => task'[t].pc = "lookup"]_vars

\* An event of a session returned unresolved after a failed lookup, and a
\* later chat.message of the session, whose first lookup failed too, has
\* issued the lookup again; the session is neither cached nor stored.
C7_Witness ==
  \E t, u \in Tasks :
    /\ task[u].pc = "done" /\ task[u].out = "unresolved"
    /\ task[t].sid = task[u].sid
    /\ task[t].pc = "lookup" /\ task[t].looked \in {"noinfo", "error"}
    /\ task[t].sid \notin DOMAIN parentIdCache
    /\ task[t].sid \notin DOMAIN sessions

\* The state of session s as chat.message finds it, and whether memories
\* have been injected into s.
Injected(s) == s \in DOMAIN sessions /\ heap[sessions[s]].injectedMemories

\* chat.message t of a main session gets past resolveSessionState in this
\* step.
ChatHandled(t) ==
  /\ task[t].kind = "chat" /\ task[t].pc = "resolved"
  /\ task'[t] # task[t]
  /\ task[t].resolved /\ ~IsSome(task[t].parent)

\* The drift search of chat.message t answers in this step.
DriftAnswers(t) == task[t].pc = "drift" /\ task'[t].pc # "drift"

\* Jaccard similarity of two identifier lists is strictly below the
\* drift threshold DriftNum / DriftDen.
BelowThreshold(current, baseline) ==
  LET a == Range(current)
      b == Range(baseline)
  IN /\ a \cup b # {}
     /\ Cardinality(a \cap b) * DriftDen < DriftNum * Cardinality(a \cup b)

\* C3 as claimed: every chat.message of a main session after its first
\* injection issues one project-scope fact search.
C3_AsClaimed ==
  [][\A t \in Tasks :
       (ChatHandled(t) /\ Injected(task[t].sid))
         => task'[t].searches =
              <<FactSearch(DefaultGroupId, DriftMaxFacts)>>]_vars

\* C3, corrected: a chat.message of a main session after its first
\* injection issues one project-scope fact search of at most 20 facts when
\* the message has text, and no search when it has none; a retrieval
\* follows if and only if the Jaccard similarity of the identifiers
\* returned and the last-injected identifiers is strictly below the drift
\* threshold; at or above it the hook returns with no further search and
\* the session state (cached context, baseline) unchanged.
C3_DriftCheck ==
  [][\A t \in Tasks :
       /\ (ChatHandled(t) /\ Injected(task[t].sid)) =>
            IF task[t].text = ""
            THEN task'[t].pc = "done" /\ task'[t].searches = <<>>
            ELSE /\ task'[t].pc = "drift"
                 /\ task'[t].searches =
                      <<FactSearch(DefaultGroupId, DriftMaxFacts)>>
       /\ DriftAnswers(t) =>
            LET below ==
                  BelowThreshold(Get(task'[t].current),
                                 heap[task[t].st].lastInjectionFactUuids)
            IN /\ (task'[t].pc = "retrieval") <=> below
               /\ ~below =>
                    /\ task'[t].pc = "done"
                    /\ task'[t].searches = task[t].searches
                    /\ heap' = heap]_vars

\* A turn after the first injection searched once, found the similarity
\* exactly at the threshold and returned with the cached context in place.
C3_Witness ==
  \E t \in Tasks :
    /\ task[t].pc = "done" /\ task[t].out = "nodrift"
    /\ task[t].sim[1] * DriftDen = DriftNum * task[t].sim[2]
    /\ task[t].searches = <<FactSearch(DefaultGroupId, DriftMaxFacts)>>
    /\ IsSome(heap[task[t].st].cachedMemoryContext)

\* C4: a chat.message that went through the drift check, whether or not it
\* re-injects, searches the project group only: no fact search and no node
\* search names the user group.
C4_ReinjectionProjectOnly ==
  \A t \in Tasks :
    (task[t].kind = "chat" /\ IsSome(task[t].current))
      => \A i \in 1..Len(task[t].searches) :
           /\ task[t].searches[i].group = DefaultGroupId
           /\ task[t].searches[i].kind \in {"facts", "nodes"}

\* A drift-triggered re-injection cached a new context after the drift
\* search and one fact and one node search, all of the project group.
C4_Witness ==
  \E t \in Tasks :
    /\ task[t].pc = "done" /\ task[t].out = "cached"
    /\ IsSome(task[t].current)
    /\ task[t].searches = <<FactSearch(DefaultGroupId, DriftMaxFacts),
                            FactSearch(DefaultGroupId, 50),
                            NodeSearch(DefaultGroupId, 30)>>

\* C5: the budget of a retrieval is calculateInjectionBudget of the
\* session's context limit when the retrieval is issued, and the memory
\* context the retrieval caches is never longer than that budget.
C5_ContextWithinBudget ==
  [][\A t \in Tasks :
       /\ (task[t].pc # "retrieval" /\ task'[t].pc = "retrieval") =>
            task'[t].budget =
              calculateInjectionBudget(heap'[task'[t].st].contextLimit)
       /\ (task[t].pc \in {"retrieval", "episodes"}
             /\ task'[t] # task[t]
             /\ heap'[task[t].st].cachedMemoryContext
                  # heap[task[t].st].cachedMemoryContext) =>
            /\ IsSome(heap'[task[t].st].cachedMemoryContext)
            /\ Len(Get(heap'[task[t].st].cachedMemoryContext))
                 <= task[t].budget]_vars

\* With a context limit below the default, a retrieval of both scopes
\* cached a context cut to exactly its budget.
C5_Witness ==
  \E t \in Tasks :
    /\ task[t].pc = "done" /\ task[t].out = "cached"
    /\ task[t].useUser
    /\ task[t].budget < calculateInjectionBudget(DefaultContextLimit)
    /\ Len(Get(heap[task[t].st].cachedMemoryContext)) = task[t].budget

\* The flush of session.compacted invocation t has returned to the hook.
FlushReturned(tk) == tk.fout \in {"nostate", "empty", "written", "failed"}

\* C11: on session.compacted of a main session the flush runs with minimum
\* size 0 and so never stops at the size gate; the write of the summary is
\* issued only once the flush has returned, and it is issued exactly when
\* the summary is non-empty; an accepted write adds one episode of its own
\* whose body is the summary as the host gave it.
C11_CompactionFlushThenSummary ==
  [][\A t \in Tasks :
       task[t].kind = "compacted" =>
         /\ (task[t].pc = "resolved" /\ task'[t].pc \in {"fetch", "write"})
              => task'[t].minBytes = CompactionMinBytes
         /\ task'[t].kind = "compacted" => task'[t].fout # "below"
         /\ (task[t].pc # "summary" /\ task'[t].pc = "summary")
              => /\ FlushReturned(task'[t])
                 /\ task[t].summary # ""
                 /\ task[t].fout = "" /\ task'[t].fout = "written"
                      => Get(episodes'.last).episodeBody = task[t].combined
         /\ (task[t].pc # "done" /\ task'[t].pc = "done"
               /\ task'[t].out = "flushed")
              => /\ (task[t].pc = "summary") <=> (task[t].summary # "")
                 /\ task[t].pc = "summary" =>
                      \/ episodes' = episodes
                      \/ /\ episodes'.count = episodes.count + 1
                         /\ Get(episodes'.last).episodeBody = task[t].summary
                         /\ Get(episodes'.last).sourceDescription =
                              "OpenCode session compaction summary"]_vars

\* A session.compacted flushed a buffer shorter than the idle minimum and
\* then persisted its summary: two episodes, the summary last.
C11_Witness ==
  \E t \in Tasks :
    /\ task[t].kind = "compacted" /\ task[t].pc = "done"
    /\ task[t].fout = "written"
    /\ Len(Join(task[t].toFlush, "\n\n")) < IdleMinBytes
    /\ episodes.count = 2
    /\ Get(episodes.last).episodeBody = "summary of the session"

\* The ways a hook invocation returns to the host; "threw" stands for an
\* exception that leaves the hook.
NormalReturns ==
  {"unresolved", "ignored", "subagent", "flushed", "finalized", "notext",
   "nodrift", "nothing", "emptycontext", "cached", "notassistant",
   "incomplete", "buffered", "notmain", "noquery", "added"}

Caches(t) ==
  /\ task[t].pc \in {"retrieval", "episodes"}
  /\ task'[t] # task[t]
  /\ task'[t].out = "cached"

\* The identifiers of the facts whose text is in context ctx.
IncludedUuids(ctx) ==
  {f.uuid : f \in {g \in {F1, F2, F3, F4} : Includes(ctx, g.fact)}}

\* C13: when a retrieval, first or drift-triggered, caches a context, the
\* identifier list cached with it and the new last-injection baseline are
\* both the set of identifiers of the facts included in the cached text.
C13_AsClaimed ==
  [][\A t \in Tasks :
       Caches(t) =>
         LET state == heap'[task[t].st]
             included == IncludedUuids(Get(state.cachedMemoryContext))
         IN /\ Range(Get(state.cachedFactUuids)) = included
            /\ Range(state.lastInjectionFactUuids) = included]_vars

\* The retrieval of chat.message t gets the answers of its searches in
\* this step.
SearchesAnswer(t) == task[t].pc = "retrieval" /\ task'[t].pc # "retrieval"

\* C14: the retrieval filters with the session's visible-fact set as it is
\* when the searches have answered, and the context it caches contains no
\* fact whose identifier is in that set.
C14_NoVisibleFactCached ==
  [][\A t \in Tasks :
       /\ SearchesAnswer(t) =>
            task'[t].visibleSet =
              (IF IsSome(heap[task[t].st].visibleFactUuids)
               THEN Range(Get(heap[task[t].st].visibleFactUuids)) ELSE {})
       /\ Caches(t) =>
            IncludedUuids(Get(heap'[task[t].st].cachedMemoryContext))
              \cap task'[t].visibleSet = {}]_vars

\* With facts f1 and f2 visible in the conversation, a retrieval that was
\* given f1, f2 and f4 cached a context with f4 in it.
C14_Witness ==
  \E t \in Tasks :
    /\ task[t].pc = "done" /\ task[t].out = "cached"
    /\ task[t].visibleSet = {"f1", "f2"}
    /\ IsSome(heap[task[t].st].cachedMemoryContext)
    /\ "f4" \in IncludedUuids(Get(heap[task[t].st].cachedMemoryContext))

\* The cached context of session s, "" when there is none.
CachedContext(hp, s) ==
  IF s \in DOMAIN sessions /\ IsSome(hp[sessions[s]].cachedMemoryContext)
  THEN Get(hp[sessions[s]].cachedMemoryContext) ELSE ""

\* C15: a call of the transform hook injects only a context that is cached
\* for the session of the last user message, and leaves the cache of that
\* session empty when it injects; a call that finds no cached context
\* leaves the user's text as it is.  Only chat.message fills the cache, so
\* a cached context reaches at most one prompt.
C15_InjectedAtMostOnce ==
  [][LET before == hist.transform
         after == hist'.transform
         called == after # before
         sid == Get(after).sid
     IN /\ (called /\ Get(after).out = "injected") =>
             /\ CachedContext(heap, sid) # ""
             /\ Includes(Get(after).text,
                         "\n" \o CachedContext(heap, sid) \o "\n</memory>")
             /\ CachedContext(heap', sid) = ""
             /\ heap'[sessions[sid]].cachedFactUuids = None
        /\ (called /\ Get(after).out # "injected") =>
             ~(\E x \in DOMAIN sessions :
                 /\ CachedContext(heap, x) # ""
                 /\ Includes(Get(after).text, CachedContext(heap, x)))
        /\ \A x \in DOMAIN sessions :
             (CachedContext(heap, x) = "" /\ CachedContext(heap', x) # "")
               => \E t \in Tasks : Caches(t) /\ task[t].sid = x]_vars

\* A context was cached and a transform call injected it: the cache is
\* empty and the prompt carries the block with its identifiers.
C15_Witness ==
  /\ IsSome(hist.transform)
  /\ Get(hist.transform).out = "injected"
  /\ Includes(Get(hist.transform).text, "<memory data-uuids=\"f1,f2")
  /\ CachedContext(heap, "s1") = ""

\* What is left of a scope's two answers after normalisation and the
\* removal of the facts in the visible set.
Remaining(facts, nodes, visible) ==
  LET context == deduplicateContext(searchFacts(facts), searchNodes(nodes))
  IN [facts |-> {f \in Range(context.facts) : f.uuid \notin visible},
      nodes |-> Range(context.nodes)]

\* The set state.visibleFactUuids of the state invocation t works on.
VisibleNow(t) ==
  IF IsSome(heap[task[t].st].visibleFactUuids)
  THEN Range(Get(heap[task[t].st].visibleFactUuids)) ELSE {}

\* Nothing is left of the four answers the retrieval of t gets in this step.
NothingRemains(t) ==
  LET a == task'[t].answers
      n == Len(a)
      project == Remaining(a[n - 3], a[n - 2], VisibleNow(t))
      user == Remaining(a[n - 1], a[n], VisibleNow(t))
  IN /\ project.facts = {} /\ project.nodes = {}
     /\ user.facts = {} /\ user.nodes = {}

\* C16: when no fact and no entity of either scope is left after
\* normalisation and visible-fact filtering, the retrieval returns normally
\* without asking for the snapshot, and the cached context, the cached
\* identifiers and the last-injection baseline are what they were.
C16_NothingLeftNothingCached ==
  [][\A t \in Tasks :
       (SearchesAnswer(t) /\ NothingRemains(t)) =>
         LET st == task[t].st
         IN /\ task'[t].pc = "done" /\ task'[t].out = "nothing"
            /\ task'[t].searches = task[t].searches
            /\ heap'[st].cachedMemoryContext = heap[st].cachedMemoryContext
            /\ heap'[st].cachedFactUuids = heap[st].cachedFactUuids
            /\ heap'[st].lastInjectionFactUuids =
                 heap[st].lastInjectionFactUuids]_vars

\* A retrieval was given facts f1 and f2, both visible in the conversation,
\* and returned with nothing cached.
C16_Witness ==
  \E t \in Tasks :
    /\ task[t].pc = "done" /\ task[t].out = "nothing"
    /\ task[t].visibleSet = {"f1", "f2"}
    /\ task[t].answers[Len(task[t].answers) - 3] = Some(<<F1, F2, F1>>)
    /\ heap[task[t].st].cachedMemoryContext = None
    /\ heap[task[t].st].injectedMemories

\* The state of invocation t is marked as injected in this step.
MarksInjected(t) ==
  /\ task'[t] # task[t] /\ task[t].st # 0
  /\ ~heap[task[t].st].injectedMemories
  /\ heap'[task[t].st].injectedMemories

\* Every search the retrieval of t had issued is answered with a failure in
\* this step.
RetrievalFails(t) ==
  LET a == task'[t].answers
      n == Len(a)
      issued == task[t].useUser /\ heap[task[t].st].userGroupId # ""
  IN /\ SearchesAnswer(t)
     /\ a[n - 3] = None /\ a[n - 2] = None
     /\ issued => (a[n - 1] = None /\ a[n] = None)

\* C17 as claimed: the session is marked as injected only by the step that
\* completes a retrieval, and a retrieval whose searches failed leaves the
\* mark as it was.
C17_AsClaimed ==
  [][\A t \in Tasks :
       /\ MarksInjected(t) =>
            /\ task[t].pc \in {"retrieval", "episodes"}
            /\ task'[t].pc = "done"
       /\ RetrievalFails(t) =>
            heap'[task[t].st].injectedMemories =
              heap[task[t].st].injectedMemories]_vars

\* The drift search of invocation t is answered with a failure in this step.
DriftFails(t) ==
  /\ task[t].pc = "drift" /\ task'[t].pc # "drift"
  /\ task'[t].answers[Len(task'[t].answers)] = None

\* C18 as claimed: when the drift search fails the hook returns: it issues
\* no further search and the cached context, the cached identifiers and
\* the baseline stay as they are.
C18_AsClaimed ==
  [][\A t \in Tasks :
       DriftFails(t) =>
         /\ task'[t].pc = "done"
         /\ task'[t].out # "threw"
         /\ task'[t].searches = task[t].searches
         /\ heap' = heap]_vars

\* The compacting hook t returns in this step.
CompactingReturns(t) ==
  /\ task'[t].kind = "compacting" /\ task'[t].pc = "done"
  /\ \/ task[t].pc = "compactSearch"
     \/ (nEvents' # nEvents /\ FirstFree(t))

\* C19: getCompactionContext returns at most one string and the string is
\* no longer than the character budget, which is the injection budget of
\* the session's context limit at the time of the call; the hook appends
\* what was returned to the context it was given.
C19_CompactionContextWithinBudget ==
  [][\A t \in Tasks :
       /\ (nEvents' # nEvents /\ FirstFree(t)
             /\ task'[t].kind = "compacting" /\ task'[t].st # 0) =>
            task'[t].budget =
              calculateInjectionBudget(heap[task'[t].st].contextLimit)
       /\ CompactingReturns(t) =>
            /\ Len(task'[t].added) <= 1
            /\ \A i \in 1..Len(task'[t].added) :
                 Len(task'[t].added[i]) <= task'[t].budget
            /\ task'[t].context = task'[t].given \o task'[t].added]_vars

\* With a budget of 200 characters and facts and entities found, the hook
\* added one string of exactly 200 characters.
C19_Witness ==
  \E t \in Tasks :
    /\ task[t].kind = "compacting" /\ task[t].pc = "done"
    /\ task[t].budget = 200 /\ Len(task[t].answers) = 4
    /\ task[t].answers[1] = Some(<<F1, F2, F5, F1>>)
    /\ task[t].answers[2] = Some(<<N1, N2>>)
    /\ Len(task[t].added) = 1 /\ Len(task[t].added[1]) = 200
    /\ task[t].context = task[t].given \o task[t].added

\* The first three of the context strings are blank.
BlankQuery(contextStrings) ==
  \A i \in 1..Min(3, Len(contextStrings)) : Trim(contextStrings[i]) = ""

\* None of the four answers holds a fact or an entity.
NothingFound(answers) ==
  /\ Len(answers) = 4
  /\ \A i \in 1..4 : ~IsSome(answers[i]) \/ Len(Get(answers[i])) = 0

\* C20: a compacting hook whose query is empty returns at once, without a
\* search and with the context as it was given; a compacting hook whose
\* searches found no fact and no entity returns with the context as it
\* was given.
C20_NothingAddedWithoutQueryOrResults ==
  [][\A t \in Tasks :
       /\ (nEvents' # nEvents /\ FirstFree(t)
             /\ task'[t].kind = "compacting"
             /\ BlankQuery(task'[t].given)) =>
            /\ task'[t].pc = "done"
            /\ task'[t].searches = <<>>
            /\ task'[t].added = <<>>
            /\ task'[t].context = task'[t].given
       /\ (task[t].pc = "compactSearch" /\ task'[t].pc = "done"
             /\ NothingFound(task'[t].answers)) =>
            /\ task'[t].added = <<>>
            /\ task'[t].context = task'[t].given]_vars

\* One compacting hook returned without a search because its first three
\* context strings were blank, another searched both scopes, found nothing
\* and added nothing.
C20_Witness ==
  \E t, u \in Tasks :
    /\ task[t].kind = "compacting" /\ task[t].pc = "done"
    /\ task[t].st # 0 /\ task[t].given = <<" ", "", "", "later">>
    /\ task[t].searches = <<>> /\ task[t].context = task[t].given
    /\ task[u].kind = "compacting" /\ task[u].pc = "done"
    /\ Len(task[u].searches) = 4 /\ NothingFound(task[u].answers)
    /\ task[u].context = <<"fix the login bug">>

\* The scope whose answers are facts and nodes found something.
Contributed(facts, nodes) ==
  \/ IsSome(facts) /\ Len(Get(facts)) > 0
  \/ IsSome(nodes) /\ Len(Get(nodes)) > 0

\* C21: the string a compacting hook adds holds a project section only if
\* the project searches found a fact or an entity, and a user section only
\* if the user searches found one.
C21_AsClaimed ==
  [][\A t \in Tasks :
       (CompactingReturns(t) /\ Len(task'[t].answers) = 4) =>
         \A i \in 1..Len(task'[t].added) :
           /\ Includes(task'[t].added[i], "<memory source=\"project\">") =>
                Contributed(task'[t].answers[1], task'[t].answers[2])
           /\ Includes(task'[t].added[i], "<memory source=\"user\">") =>
                Contributed(task'[t].answers[3], task'[t].answers[4])]_vars

\* The line a fact is formatted to, with its stale annotation
OwnLine(fact) == formatFactLine(annotateStaleFact(fact, Now, FactStaleDays))

\* The characters the lines of the facts take, each with its separator
RECURSIVE LineCost(_)
LineCost(facts) ==
  IF Len(facts) = 0 THEN 0
  ELSE Len(OwnLine(facts[1])) + 1 + LineCost(Tail(facts))

\* takeFactsWithinBudget was applied
Took == hist.call.fn = "takeFactsWithinBudget"

\* C22: the formatted lines of the facts takeFactsWithinBudget returns take,
\* each with one separator, at most budget characters, and nothing is
\* returned for a budget of zero or less.
C22_AsClaimed ==
  Took =>
    /\ hist.call.args.budget <= 0 => hist.call.out = <<>>
    /\ hist.call.args.budget > 0 =>
         LineCost(hist.call.out) <= hist.call.args.budget

\* C23: takeFactsWithinBudget returns facts of its input as they are; a
\* fact whose formatted line with its separator is longer than the budget
\* is not returned; and when the line of a fact that is formatted fits the
\* budget, something is returned.
C23_AsClaimed ==
  Took =>
    LET facts == hist.call.args.facts
        budget == hist.call.args.budget
        out == hist.call.out
    IN /\ Range(out) \subseteq Range(facts)
       /\ \A i \in 1..Len(out) : Len(OwnLine(out[i])) + 1 <= budget
       /\ (\E i \in 1..Len(facts) :
             /\ ~isFactInvalid(facts[i], Now)
             /\ Len(OwnLine(facts[i])) + 1 <= budget) => Len(out) > 0

\* The facts in the order of their tiers: decisions, active, background
PriorityOrder(facts) ==
  LET classified == classifyFacts(facts, Now)
  IN classified.decisions \o classified.active \o classified.background

\* One pass over the facts that takes each fact whose own line fits what
\* remains of the budget
RECURSIVE GreedyPass(_, _)
GreedyPass(facts, remaining) ==
  IF Len(facts) = 0 THEN <<>>
  ELSE LET length == Len(OwnLine(facts[1])) + 1
       IN IF remaining - length < 0
          THEN GreedyPass(Tail(facts), remaining)
          ELSE <<facts[1]>> \o GreedyPass(Tail(facts), remaining - length)

\* C24: what takeFactsWithinBudget returns is the greedy pass over the
\* facts that are formatted, in the order decisions, active, background,
\* each fact measured by its own line.
C24_AsClaimed ==
  (Took /\ hist.call.args.budget > 0) =>
    hist.call.out =
      GreedyPass(SelectSeq(PriorityOrder(hist.call.args.facts),
                           LAMBDA f : ~isFactInvalid(f, Now)),
                 hist.call.args.budget)

\* classifyFacts was applied
Classified == hist.call.fn = "classifyFacts"

\* The facts whose text holds a decision keyword as a whole word: "must" in
\* d1 and "DECIDED" in d2, but not the "must" of "mustard" in a1
WithKeyword == {"d1", "d2"}

\* The validity of the fact began at a time that can be read, not before
\* the given time
BeganSince(fact, time) ==
  /\ fact.valid_at # None
  /\ fact.valid_at[1].ok
  /\ fact.valid_at[1].ms >= time

\* The three lists hold every input fact once and share no fact, and a
\* fact without a keyword is in active exactly if Active holds of it.
Partitioned(facts, out, Active(_)) ==
  /\ Len(out.decisions) + Len(out.active) + Len(out.background) = Len(facts)
  /\ Range(out.decisions) \cup Range(out.active) \cup Range(out.background)
       = Range(facts)
  /\ Range(out.decisions) \cap Range(out.active) = {}
  /\ Range(out.decisions) \cap Range(out.background) = {}
  /\ Range(out.active) \cap Range(out.background) = {}
  /\ \A f \in Range(facts) :
       /\ f \in Range(out.decisions) <=> f.uuid \in WithKeyword
       /\ f \in Range(out.active) <=> (f.uuid \notin WithKeyword /\ Active(f))

\* C25 (as stated): classifyFacts puts every fact in exactly one list: in
\* decisions if its text has a decision keyword, otherwise in active if its
\* validity began within the 7 days before now, otherwise in background.
C25_AsClaimed ==
  Classified =>
    Partitioned(hist.call.args.facts, hist.call.out,
                LAMBDA f : BeganSince(f, Now - 7 * DAY_MS)
                             /\ ~BeganSince(f, Now + 1))

\* C25 (amended): classifyFacts puts every fact in exactly one list: in
\* decisions if its text has a decision keyword, otherwise in active if its
\* validity began 7 days before now or later, a start after now included,
\* otherwise in background.
C25_PartitionByKeywordThenStart ==
  Classified =>
    Partitioned(hist.call.args.facts, hist.call.out,
                LAMBDA f : BeganSince(f, Now - 7 * DAY_MS))

\* A fact that begins tomorrow was put in active, between a decision and
\* a fact that is 8 days old.
C25_Witness ==
  /\ Classified
  /\ hist.call.args.facts = <<B1, X1, D2>>
  /\ hist.call.out = [decisions |-> <<D2>>, active |-> <<X1>>,
                      background |-> <<B1>>]

\* C26: the project and user budgets of a non-negative budget, and the
\* decision, active and background budgets of it, are natural numbers
\* that sum to the budget; no share is lost to the floors.
C26_SharesSumToBudget ==
  LET budget == hist.call.args.budget
      out == hist.call.out
  IN /\ hist.call.fn = "splitScopes" =>
          /\ out.project \in Nat /\ out.user \in Nat
          /\ out.project + out.user = budget
     /\ hist.call.fn = "splitTiers" =>
          /\ out.decision \in Nat /\ out.active \in Nat
          /\ out.background \in Nat
          /\ out.decision + out.active + out.background = budget

\* A budget of 10 was split into 7 for the project and 3 for the user.
C26_Witness ==
  /\ hist.call.fn = "splitScopes"
  /\ hist.call.args.budget = 10
  /\ hist.call.out = [project |-> 7, user |-> 3]

\* C27: computeJaccardSimilarity of two lists of identifiers is the size of
\* the intersection of their sets over the size of the union, a number from
\* 0 to 1; it is 1 when the sets are equal, both empty included, and 0 when
\* exactly one of them is empty.
C27_JaccardInUnitInterval ==
  hist.call.fn = "computeJaccardSimilarity" =>
    LET A == {hist.call.args.left[i] : i \in 1..Len(hist.call.args.left)}
        B == {hist.call.args.right[i] : i \in 1..Len(hist.call.args.right)}
        num == hist.call.out[1]
        den == hist.call.out[2]
    IN /\ den > 0 /\ 0 <= num /\ num <= den
       /\ A \cup B # {} =>
            num * Cardinality(A \cup B) = den * Cardinality(A \cap B)
       /\ A = B => num = den
       /\ ((A = {}) # (B = {})) => num = 0

\* The lists [f1, f1, f2] and [f2, f1] have equal sets and similarity 1.
C27_Witness ==
  /\ hist.call.fn = "computeJaccardSimilarity"
  /\ hist.call.args.left = <<"f1", "f1", "f2">>
  /\ hist.call.args.right = <<"f2", "f1">>
  /\ hist.call.out[1] = hist.call.out[2]

\* The items whose identifier is at no earlier position, in their order
RECURSIVE FirstOccurrences(_, _)
FirstOccurrences(items, i) ==
  IF i > Len(items) THEN <<>>
  ELSE (IF \E j \in 1..(i - 1) : items[j].uuid = items[i].uuid
        THEN <<>> ELSE <<items[i]>>) \o FirstOccurrences(items, i + 1)

\* C28: deduplicateFactsByUuid and deduplicateNodesByUuid return the first
\* item of each identifier, in the order of the input, and return a list
\* they have returned as it is.
C28_FirstOccurrenceKept ==
  /\ hist.call.fn = "deduplicateFactsByUuid" =>
       /\ hist.call.out = FirstOccurrences(hist.call.args.facts, 1)
       /\ deduplicateByUuid(hist.call.out) = hist.call.out
  /\ hist.call.fn = "deduplicateNodesByUuid" =>
       /\ hist.call.out = FirstOccurrences(hist.call.args.nodes, 1)
       /\ deduplicateByUuid(hist.call.out) = hist.call.out

\* Of two facts with the identifier k1 around k2, the first was kept.
C28_Witness ==
  /\ hist.call.fn = "deduplicateFactsByUuid"
  /\ hist.call.args.facts = <<K1Again, K2, K1>>
  /\ hist.call.out = <<K1Again, K2>>

\* The identifiers the facts refer to as source or target
ReferencedBy(facts) ==
  {facts[i].source_node[1].uuid :
     i \in {j \in 1..Len(facts) : facts[j].source_node # None}}
  \cup {facts[i].target_node[1].uuid :
          i \in {j \in 1..Len(facts) : facts[j].target_node # None}}

\* C29: the entities deduplicateContext returns are, in the order of the
\* input, the first entity of each identifier that no returned fact which
\* passes the validity filter refers to as its source or target.
C29_AsClaimed ==
  hist.call.fn = "deduplicateContext" =>
    LET surviving == SelectSeq(hist.call.out.facts,
                               LAMBDA f : ~isFactInvalid(f, Now))
    IN hist.call.out.nodes =
         SelectSeq(FirstOccurrences(hist.call.args.nodes, 1),
                   LAMBDA n : n.uuid \notin ReferencedBy(surviving))

\* The end of the fact's validity is before now or its start is after now,
\* by times that can be read
OutsideValidity(fact) ==
  \/ /\ fact.invalid_at # None /\ fact.invalid_at[1].ok
     /\ fact.invalid_at[1].ms < Now
  \/ /\ fact.valid_at # None /\ fact.valid_at[1].ok
     /\ fact.valid_at[1].ms > Now

\* C30: the facts that are formatted are those of the input whose validity
\* has not ended before now and has not begun after now, a fact without a
\* time or with an unparsable time among them, and the text of the context
\* holds the text of each of them and of no other fact.
C30_DroppedIffOutsideValidity ==
  hist.call.fn = "formatMemoryContext" =>
    \A i \in 1..Len(hist.call.args.facts) :
      LET fact == hist.call.args.facts[i]
      IN /\ (\E k \in 1..Len(hist.call.out.kept) :
               hist.call.out.kept[k].uuid = fact.uuid)
              <=> ~OutsideValidity(fact)
         /\ Includes(hist.call.out.text, fact.fact) <=> ~OutsideValidity(fact)

\* Of an expired fact, a fact with unparsable times and a fact that begins
\* tomorrow, the one with the unparsable times was formatted.
C30_Witness ==
  /\ hist.call.fn = "formatMemoryContext"
  /\ hist.call.args.facts = <<V2, V4, V3>>
  /\ hist.call.out.kept = <<V4>>
  /\ Includes(hist.call.out.text, "<fact>delta</fact>")
  /\ ~Includes(hist.call.out.text, "beta")
  /\ ~Includes(hist.call.out.text, "gamma")

\* The decimal digits, for an age of at most 9 days
DigitOf == <<"0", "1", "2", "3", "4", "5", "6", "7", "8", "9">>

\* C31: annotateStaleFact returns the fact with "[stale: N days ago] "
\* before its text exactly when the fact has a start that can be read and
\* N, the whole number of days from the start to now, is at least
\* factStaleDays; otherwise it returns the fact as it is.  The end of the
\* validity plays no part.
C31_StaleIffWholeDaysReachThreshold ==
  hist.call.fn = "annotateStaleFact" =>
    LET fact == hist.call.args.fact
        started == fact.valid_at # None /\ fact.valid_at[1].ok
        age == (Now - fact.valid_at[1].ms) \div DAY_MS
    IN /\ IF started /\ age >= hist.call.args.factStaleDays
          THEN hist.call.out =
                 [fact EXCEPT !.fact = "[stale: " \o DigitOf[age + 1]
                                         \o " days ago] " \o fact.fact]
          ELSE hist.call.out = fact
       /\ \A invalidAt \in StaleEnds :
            annotateStaleFact([fact EXCEPT !.invalid_at = invalidAt], Now,
                              hist.call.args.factStaleDays).fact
              = hist.call.out.fact

\* A fact that began exactly FactStaleDays days ago and ended a day ago
\* was annotated with its age.
C31_Witness ==
  /\ hist.call.fn = "annotateStaleFact"
  /\ hist.call.args.factStaleDays = FactStaleDays
  /\ hist.call.args.fact.valid_at = Time(Now - FactStaleDays * DAY_MS)
  /\ hist.call.args.fact.invalid_at = Time(Now - DAY_MS)
  /\ StartsWith(hist.call.out.fact, "[stale: ")
  /\ Includes(hist.call.out.fact, " days ago] deploys on friday")

\* How often message m is in the list
CountIn(messages, m) == Cardinality({i \in 1..Len(messages) : messages[i] = m})

RECURSIVE SumOf(_, _)
SumOf(f, S) ==
  IF S = {} THEN 0
  ELSE LET x == CHOOSE y \in S : TRUE IN f[x] + SumOf(f, S \ {x})

\* How often message m of session s is in the buffer of s or in the
\* messages a flush of s has taken and is writing
HeldCount(s, m) ==
  CountIn(Buffer(s), m)
    + SumOf([u \in Tasks |->
               IF task[u].pc = "write" /\ task[u].sid = s
               THEN CountIn(task[u].toFlush, m) ELSE 0], Tasks)

\* How often m is in the episodes of session s that this step has written
WrittenCount(s, m) ==
  SumOf([u \in Tasks |->
           IF /\ task[u].pc = "write" /\ task[u].sid = s
              /\ task'[u].pc # "write" /\ task'[u].fout = "written"
           THEN CountIn(task[u].toFlush, m) ELSE 0], Tasks)

\* C32: no step loses a buffered message: a message that is in the buffer
\* of a session or held by a flush in flight is, after the step, still in
\* the buffer or held by a flush, unless the step wrote it in an episode.
C32_AsClaimed ==
  [][\A s \in Sessions :
       \A m \in Range(Buffer(s))
                  \cup UNION {Range(task[u].toFlush) : u \in Tasks} :
         HeldCount(s, m)' >= HeldCount(s, m) - WrittenCount(s, m)]_vars

\* C33: a flush never calls addEpisode with an empty body: the body of
\* every episode write in flight has at least one character.
C33_AsClaimed ==
  \A t \in Tasks : task[t].pc = "write" => Len(task[t].combined) > 0

C35_AsClaimed ==
  [][\A s \in DOMAIN sessions :
       /\ s \in DOMAIN sessions'
       /\ sessions'[s] = sessions[s]
       /\ heap[sessions[s]].injectedMemories =>
            heap'[sessions'[s]].injectedMemories]_vars

\* Invocation t begins a resolution of its session's parent in this step.
ResolutionStarts(t) ==
  /\ task'[t] # task[t]
  /\ \/ Starts(t)
     \/ task[t].pc = "isSub" /\ task'[t].pc # "done"

\* C36: a resolution of a session that has a cache entry answers with the
\* entry, null or the parent identifier, without a lookup; a lookup that
\* succeeds stores what the host said; an entry, once there, stays as it
\* is, and an entry is added by a successful lookup or session.created
\* only, so a session without an entry has not been resolved.
C36_CachedParentNoLookup ==
  [][/\ \A t \in Tasks :
          /\ (ResolutionStarts(t) /\ task'[t].sid \in DOMAIN parentIdCache) =>
               /\ task'[t].pc # "lookup"
               /\ task'[t].looked = "cached"
               /\ task'[t].resolved
               /\ task'[t].parent = parentIdCache[task'[t].sid]
          /\ (task[t].pc = "lookup" /\ task'[t].pc # "lookup"
                /\ task'[t].looked = "ok") =>
               /\ task[t].sid \in DOMAIN parentIdCache'
               /\ parentIdCache'[task[t].sid] = HostParent(task[t].sid)
               /\ task'[t].parent = HostParent(task[t].sid)
     /\ \A s \in DOMAIN parentIdCache :
          s \in DOMAIN parentIdCache' /\ parentIdCache'[s] = parentIdCache[s]
     /\ parentIdCache' # parentIdCache =>
          \/ \E t \in Tasks : task[t].pc = "lookup" /\ task'[t].looked = "ok"
          \/ task' = task /\ nEvents' = nEvents]_vars

\* The lookup of one event of the subagent session s2 succeeded, and
\* another event of s2 was answered from the cache with the parent s1.
C36_Witness ==
  \E t, u \in Tasks :
    /\ task[u].sid = "s2" /\ task[u].looked = "ok"
    /\ task[t].sid = "s2" /\ task[t].looked = "cached"
    /\ task[t].parent = Some("s1")
    /\ parentIdCache["s2"] = Some("s1")

\* A flush of session s has written message m in an episode.
WrittenByFlush(s, m) ==
  \E t \in Tasks :
    /\ task[t].sid = s /\ task[t].fout = "written"
    /\ m \in Range(task[t].toFlush)

\* No flush of session s holds messages whose write is in flight.
NothingInFlight(s) ==
  \A t \in Tasks : task[t].sid = s => task[t].pc # "write"

\* C37: when flushes with the threshold 0 keep being triggered and, from
\* some point on, the episode writes succeed, every message that is in the
\* buffer of the main session is eventually written in an episode, the
\* buffer is empty again and again with no write in flight, and no
\* message leaves the buffer or a flush other than by a successful write.
C37_BufferedEventuallyWritten ==
  /\ \A m \in {"User: hi", "Assistant: ok"} :
       (m \in Range(Buffer("s1"))) ~> WrittenByFlush("s1", m)
  /\ []<>(Buffer("s1") = <<>> /\ NothingInFlight("s1"))
  /\ [][\A m \in {"User: hi", "Assistant: ok"} :
          HeldCount("s1", m)' >= HeldCount("s1", m) - WrittenCount("s1", m)]_vars

\* A write of the user turn was rejected, a later flush wrote it, and the
\* buffer is empty with the event budget used up.
C37_Witness ==
  /\ nEvents = MaxEvents
  /\ "s1" \in DOMAIN sessions /\ Buffer("s1") = <<>>
  /\ \E t, u \in Tasks :
       /\ task[u].fout = "failed" /\ "User: hi" \in Range(task[u].toFlush)
       /\ task[t].fout = "written" /\ "User: hi" \in Range(task[t].toFlush)
       /\ task[t].pc = "done" /\ task[u].pc = "done"

\* The re-injection that the drift search of invocation t triggered ends
\* in this step.
ReinjectionAttemptEnds(t) ==
  /\ task[t].kind = "chat" /\ task[t].pc \in {"retrieval", "episodes"}
  /\ ~task[t].first /\ IsSome(task[t].current)
  /\ task'[t].pc = "done"

\* A drift search of session state st that returns the identifiers ids
\* triggers a re-injection.
WouldReinject(ids, hp, st) ==
  shouldReinject(computeJaccardSimilarity(ids, hp[st].lastInjectionFactUuids))

\* C38 as claimed: when a drift-triggered re-injection attempt ends, a
\* drift search that returns the identifiers of the attempt's own drift
\* search again does not trigger another re-injection.
C38_AsClaimed ==
  [][\A t \in Tasks :
       ReinjectionAttemptEnds(t) =>
         ~WouldReinject(Get(task[t].current), heap', task[t].st)]_vars

\* C38: when a drift-triggered re-injection ends with a context cached,
\* the identifiers of its drift search are the new baseline and the same
\* identifiers do not trigger again; and a turn whose drift search returns
\* the identifier set of the baseline ends without a re-injection.
C38_NoRepeatAfterCachedReinjection ==
  [][\A t \in Tasks :
       /\ (ReinjectionAttemptEnds(t) /\ task'[t].out = "cached") =>
            /\ heap'[task[t].st].lastInjectionFactUuids = Get(task[t].current)
            /\ ~WouldReinject(Get(task[t].current), heap', task[t].st)
       /\ (/\ task[t].pc = "drift" /\ task'[t].pc # "drift"
           /\ Range(Get(task'[t].current))
                = Range(heap[task[t].st].lastInjectionFactUuids)) =>
            /\ task'[t].pc = "done" /\ task'[t].out = "nodrift"
            /\ task'[t].searches = task[t].searches
            /\ heap' = heap]_vars

\* A turn whose drift search found nothing re-injected and cached a
\* context, and the drift search of another turn found nothing again and
\* ended without a re-injection.
C38_Witness ==
  \E t, u \in Tasks :
    /\ t # u
    /\ task[t].pc = "done" /\ task[t].kind = "chat" /\ ~task[t].first
    /\ task[t].out = "cached" /\ task[t].current = Some(<<>>)
    /\ task[u].pc = "done" /\ task[u].kind = "chat"
    /\ task[u].out = "nodrift" /\ task[u].current = Some(<<>>)
    /\ heap[task[t].st].lastInjectionFactUuids = <<>>

\* The closing lines of the digest, with the line break before them
DigestFooter == "\n</persistent_memory>\n</summary>"

\* C39: when the character budget is at least the length of the header
\* plus the footer, the compaction digest is within the budget and ends
\* with the complete closing footer: the cut to the budget removes nothing
\* of it.
C39_AsClaimed ==
  \A t \in Tasks :
    (/\ task[t].kind = "compacting" /\ task[t].pc = "done"
     /\ Len(task[t].added) = 1
     /\ task[t].budget >= Len(Join(headerLines, "\n")) + Len(DigestFooter)) =>
      /\ Len(task[t].added[1]) <= task[t].budget
      /\ Len(task[t].added[1]) >= Len(DigestFooter)
      /\ SubSeq(task[t].added[1],
                Len(task[t].added[1]) - Len(DigestFooter) + 1,
                Len(task[t].added[1])) = DigestFooter

\* The invocations whose summarize request for session s is in progress
Summarizing(s) ==
  {t \in Tasks : /\ task[t].kind = "preempt" /\ task[t].sid = s
                 /\ task[t].pc = "summarize"}

\* C40: at no time are two summarize requests in progress for the same
\* session.
C40_AsClaimed == \A s \in Sessions : Cardinality(Summarizing(s)) <= 1

====
